---- MODULE Spec2Model ----
(***************************************************************************)
(* A model of deploy.py: the shell layer (LocalShell, DockerContainerShell),*)
(* the Ubuntu system wrapper, the MariaDB / Apache2 / PHP components, the  *)
(* Config store and the Phabricator application that composes them.        *)
(*                                                                         *)
(* Objects are records holding the fields their __init__ sets.  A method   *)
(* is an operator from the object and an execution context to the object   *)
(* and context after the call.  The context carries the commands handed to *)
(* LocalShell.run so far, the exit statuses the environment gives them and *)
(* the message of the Error that is propagating, if any.                   *)
(***************************************************************************)
EXTENDS Integers, Sequences, FiniteSets, TLC

VARIABLES
    mysql,        \* the MariaDB object
    webserver,    \* the Apache2 object
    php,          \* the PHP object
    underTest,    \* the component the harness exercises in this run
    calls,        \* parity of the number of calls made so far
    lastOp,       \* the most recent call made on the objects: [name, arg]
    repeated,     \* whether that call repeats the one before it, and how that one ended
    lastResult,   \* message of the Error that call raised, or NoError
    lastIssued,   \* the commands that call handed to LocalShell.run, in order
    lastReturn,   \* the value that call returned (None when it raised)
    lastFailed,   \* the positions in lastIssued of the commands that exited non-zero
    options,      \* Config._options of the configuration store
    disk,         \* the file at the path 'config': [exists, text]
    call,         \* the shell call in progress: [shell, command, may_fail]
    run,          \* the frame of LocalShell.run: [pc, command, may_fail, stdout, popens, result]
    process,      \* the subprocess: [alive, todo, written, status]
    pipes,        \* the bytes in flight: [stdout, stderr]
    phab,         \* the Phabricator object, once one has been constructed
    target,       \* the component paths that exist in the container
    tmp,          \* the file at the path 'config.tmp': [exists, text]
    saving        \* the frame of Config.save: [pc, todo]

vars == <<mysql, webserver, php, underTest, calls, lastOp, repeated, lastResult,
          lastIssued, lastReturn, lastFailed, options, disk, call, run, process,
          pipes, phab, target, tmp, saving>>

runVars == <<call, run, process, pipes>>

saveVars == <<tmp, saving>>

historyVars == <<underTest, calls, lastOp, repeated, lastResult, lastIssued,
                 lastReturn, lastFailed>>

----------------------------------------------------------------------------
(* Bounds of the harness.                                                  *)

\* Largest number of entries in a dict passed to configure().
MaxItems == 2

\* Option names and values the harness passes to MariaDB.configure.
MariaDBOptions == {"sql_mode", "max_allowed_packet"}
MariaDBValues == {"STRICT_ALL_TABLES", "33554432"}

\* Option names and values the harness passes to PHP.configure.
PHPOptions == {"post_max_size", "date.timezone"}
PHPValues == {"32M", "'Etc/UTC'"}

\* Site ids and site configurations the harness passes to Apache2.add_site.
SiteIds == {"phabricator_site"}
SiteConfigs == {[ServerName |-> "a.local", DocumentRoot |-> "/srv/a"],
                [ServerName |-> "b.local", DocumentRoot |-> "/srv/b"]}

\* The Ubuntu objects (each with a DockerContainerShell of its own) the
\* harness builds components on; a number is the identity of the object.
Systems == {1, 2}

\* The strings generate_password() may return.
Passwords == {"s3cret", "Xy_9.Ab0"}

\* The arguments the harness passes to MariaDB.add_user, next to a password.
Users == {"phabricator_mysql_user"}
Privileges == "SELECT, INSERT, UPDATE, DELETE, EXECUTE, SHOW VIEW"
Objects == "\\^phabricator\\_%\\^.*"   \* ^ stands for the backquote of the source

\* Package lists the harness passes to Ubuntu.install_packages.
PackageLists == {<<"git">>, <<"mariadb-server">>}

\* Largest number of bytes a subprocess writes before it exits.
MaxOutput == 2

\* Number of bytes a pipe holds before the writer blocks.
PipeCapacity == 1

\* Largest exit status a subprocess ends with.
MaxStatus == 2

\* Commands the harness runs through the shells.
Commands == {<<"false">>, <<"test", "-e", "/opt/app">>}

\* Option ids and values the harness passes to the Config store.
Keys == {"app.id", "mysql.user.password"}
Values == {"phabricator", "s3cret"}

----------------------------------------------------------------------------
(* Error messages (class Error, deploy.py:13-15; one class, told apart by  *)
(* the message).                                                           *)

NoError == "no error"
ErrShell == "Shell command returned 1."
ErrMariaDBInstalled == "MariaDB shall be configured before installing."
ErrMariaDBConflict == "Conflicting values for MariaDB option"
ErrPHPInstalled == "PHP shall be configured before installing."
ErrPHPConflict == "Conflicting values for PHP option"
ErrSiteInstalled == "Cannot add site: Apache2 is already installed."
ErrSiteExists == "Site already exists."
ErrNotIdentical == "These objects are required to be identical"
ErrUnknownOption == "Unknown option"
FileNotFoundError == "FileNotFoundError"

\* Python's None.
None == "None"

----------------------------------------------------------------------------
(* Python dicts, kept in insertion order as sequences of <<key, value>>.   *)

DictKeys(d) == {d[i][1] : i \in 1..Len(d)}

DictHas(d, k) == k \in DictKeys(d)

DictGet(d, k) == d[CHOOSE i \in 1..Len(d) : d[i][1] = k][2]

\* d[k] = v for a key that is absent.
DictAdd(d, k, v) == Append(d, <<k, v>>)

\* All dict literals with at most n entries over the given keys and values.
Dicts(keys, values, n) ==
    {d \in UNION {[1..m -> keys \X values] : m \in 0..n} :
        \A i, j \in 1..Len(d) : i # j => d[i][1] # d[j][1]}

\* The dicts the harness passes to MariaDB.configure and to PHP.configure.
MariaDBConfigs == Dicts(MariaDBOptions, MariaDBValues, MaxItems)
PHPConfigs == Dicts(PHPOptions, PHPValues, MaxItems)

RECURSIVE Join(_)
\* ' '.join(command)
Join(command) ==
    IF Len(command) = 0 THEN ""
    ELSE IF Len(command) = 1 THEN command[1]
    ELSE command[1] \o " " \o Join(Tail(command))

----------------------------------------------------------------------------
(* Execution context.                                                      *)

\* A fresh context in which the commands whose position (in order of issue)
\* is in fail exit with status 1 and all others with status 0.
Ctx(fail) == [issued |-> <<>>, fail |-> fail, raised |-> NoError]

Raised(ctx) == ctx.raised # NoError

Raise(ctx, message) == [ctx EXCEPT !.raised = message]

\* The environments to try a call in: no command fails, or the k-th does.
Failures(ctx) == {{}} \union {{k} : k \in 1..Len(ctx.issued)}

\* The same, and the environments in which two commands fail (the first
\* of them one whose failure the caller tolerates).
Failures2(ctx) == {{j, k} : j, k \in 1..Len(ctx.issued)} \union {{}}

\* Mutant: the exit status of the command is not looked at.
LocalShell_run_ignores_status(ctx, command, may_fail) ==
    IF Raised(ctx) THEN ctx ELSE [ctx EXCEPT !.issued = Append(@, command)]

\* LocalShell.run as the callers see it: the command is handed to the shell,
\* and a non-zero status raises unless may_fail.
LocalShell_run(ctx, command, may_fail) ==
    IF Raised(ctx) THEN ctx
    ELSE LET n == Len(ctx.issued) + 1
             status == IF n \in ctx.fail THEN 1 ELSE 0
             c1 == [ctx EXCEPT !.issued = Append(@, command)]
         IN  IF ~may_fail /\ status # 0 THEN Raise(c1, ErrShell) ELSE c1

\* Exit status of the command most recently issued in ctx.
LastStatus(ctx) == IF Len(ctx.issued) \in ctx.fail THEN 1 ELSE 0

container_name == "phabricator"

\* The command DockerContainerShell.run hands to its shell.
DockerExec(command) ==
    <<"docker", "exec", "-it", container_name, "sh", "-c", Join(command)>>

DockerContainerShell_run(ctx, command, may_fail) ==
    LocalShell_run(ctx, DockerExec(command), may_fail)

\* The command DockerContainerShell.does_file_exist hands to its shell.
TestExists(path) == <<"docker", "exec", "-it", container_name, "test", "-e", path>>

\* does_file_exist(path): the probe may fail, and the answer is its status.
DockerContainerShell_does_file_exist(ctx, path) ==
    LET c1 == LocalShell_run(ctx, TestExists(path), TRUE)
    IN  [ctx |-> c1, value |-> LastStatus(c1) = 0]

DockerContainerShell_write_file(ctx, path) ==
    LocalShell_run(ctx,
                   <<"docker", "cp", "<tmp>", container_name \o ":" \o path>>,
                   FALSE)

----------------------------------------------------------------------------
(* class Ubuntu                                                            *)

\* Mutant: a ledger that records the action when the command is attempted, so
\* that a command that failed is skipped by the next call.
Ubuntu_apt_get_recorded_on_attempt(ctx, args) ==
    LET command == DockerExec(<<"DEBIAN_FRONTEND=noninteractive", "apt-get">> \o args)
    IN  IF \E i \in 1..Len(lastIssued) : lastIssued[i] = command
        THEN ctx
        ELSE LocalShell_run(ctx, command, FALSE)

Ubuntu_apt_get(ctx, args) ==
    DockerContainerShell_run(
        ctx, <<"DEBIAN_FRONTEND=noninteractive", "apt-get">> \o args, FALSE)

Ubuntu_update(ctx) == Ubuntu_apt_get(ctx, <<"update">>)

Ubuntu_upgrade(ctx) == Ubuntu_apt_get(ctx, <<"upgrade", "--yes">>)

Ubuntu_update_upgrade(ctx) == Ubuntu_upgrade(Ubuntu_update(ctx))

Ubuntu_install_packages(ctx, packages) ==
    Ubuntu_apt_get(ctx, <<"install", "--yes">> \o packages)

Ubuntu_manage_service(ctx, service, action) ==
    DockerContainerShell_run(ctx, <<"service", service, action>>, FALSE)

----------------------------------------------------------------------------
(* class Config.  _options is a function from the ids present to values.   *)

Config_init == <<>>

Config_contains(self, id) == id \in DOMAIN self

\* Mutant: a missing option reads as an empty placeholder.
Config_getitem_placeholder(self, ctx, id) ==
    IF id \in DOMAIN self
    THEN [ctx |-> ctx, value |-> self[id]]
    ELSE [ctx |-> ctx, value |-> ""]

Config_getitem(self, ctx, id) ==
    IF Config_contains(self, id)
    THEN [ctx |-> ctx, value |-> self[id]]
    ELSE [ctx |-> Raise(ctx, ErrUnknownOption), value |-> None]

Config_setitem(self, id, value) ==
    [k \in DOMAIN self \union {id} |-> IF k = id THEN value ELSE self[k]]

\* Mutant: set_default overwrites.
Config_set_default_overwrite(self, id, value) == Config_setitem(self, id, value)

Config_set_default(self, id, value) ==
    IF ~Config_contains(self, id) THEN Config_setitem(self, id, value) ELSE self

\* Every option id of the program, in the order sorted() gives them.
SortedIds ==
    <<"app.daemon.user.name", "app.domain-base", "app.domain-files", "app.id",
      "app.site.id", "mysql.user.name", "mysql.user.password">>

\* Mutant: the pairs in the reverse of the sorted order.
Config_iter_unsorted(self) ==
    LET ids == SelectSeq(SortedIds, LAMBDA id : id \in DOMAIN self)
    IN  [i \in 1..Len(ids) |-> <<ids[Len(ids) + 1 - i], self[ids[Len(ids) + 1 - i]]>>]

\* Config.__iter__: the (id, value) pairs in sorted id order.
Config_iter(self) ==
    LET ids == SelectSeq(SortedIds, LAMBDA id : id \in DOMAIN self)
    IN  [i \in 1..Len(ids) |-> <<ids[i], self[ids[i]]>>]

\* repr() of a str without quotes or backslashes in it.
Repr(value) == "'" \o value \o "'"

\* The line Config.save writes for one entry.
EntryLine(id, value) == "    " \o Repr(id) \o ": " \o Repr(value) \o ","

\* The lines Config.save writes for the store.
Config_save_lines(self) ==
    LET items == Config_iter(self)
    IN  <<"{">> \o [i \in 1..Len(items) |-> EntryLine(items[i][1], items[i][2])]
               \o <<"}">>

\* The values that occur in the files the model reads.
FileValues ==
    Values \union Passwords
           \union {"dev.local", "devfiles.local", "phabricator_mysql_user",
                   "phabricator_user", "phabricator_site"}

RECURSIVE EvalEntries(_, _)
\* eval() of the entry lines of a dict display, left to right: a later
\* entry for the same id replaces the earlier one.
EvalEntries(lines, d) ==
    IF lines = <<>> THEN d
    ELSE LET e == CHOOSE e \in {<<SortedIds[i], v>> : i \in 1..Len(SortedIds),
                                                      v \in FileValues} :
                      EntryLine(e[1], e[2]) = lines[1]
         IN  EvalEntries(Tail(lines), DictAdd(SelectSeq(d, LAMBDA x : x[1] # e[1]),
                                              e[1], e[2]))

\* eval(f.read()) of a file of the form Config.save writes.
Eval(text) == EvalEntries(SubSeq(text, 2, Len(text) - 1), <<>>)

RECURSIVE Config_load_items(_, _)
\* for id, value in eval(f.read()).items(): self[id] = value
Config_load_items(self, items) ==
    IF items = <<>> THEN self
    ELSE Config_load_items(Config_setitem(self, items[1][1], items[1][2]),
                           Tail(items))

\* A path that names no file, and a file holding the given lines.
Absent == [exists |-> FALSE, text |-> <<>>]
File(text) == [exists |-> TRUE, text |-> text]

Config_load(self, ctx, file) ==
    IF ~file.exists
    THEN [self |-> self, ctx |-> Raise(ctx, FileNotFoundError)]
    ELSE [self |-> Config_load_items(self, Eval(file.text)), ctx |-> ctx]

\* The two files Config.save touches, by path.
Files(config, temporary) == ("config" :> config) @@ ("config.tmp" :> temporary)

\* Mutant: save writes to the path itself.
tmp_path_in_place(path) == path

\* tmp_path = path + '.tmp'
tmp_path(path) == path \o ".tmp"

\* open(tmp_path, 'wt'): the file is created, or truncated when it exists.
Config_save_open(fs, path) == [fs EXCEPT ![tmp_path(path)] = File(<<>>)]

\* f.write of one line.
Config_save_write(fs, path, line) ==
    [fs EXCEPT ![tmp_path(path)] = File(Append(@.text, line))]

RECURSIVE Config_save_write_all(_, _, _)
Config_save_write_all(fs, path, lines) ==
    IF lines = <<>> THEN fs
    ELSE Config_save_write_all(Config_save_write(fs, path, lines[1]), path,
                               Tail(lines))

\* os.rename(tmp_path, path): path names the file tmp_path named, which
\* replaces the file that was there, and tmp_path names nothing.
Config_save_rename(fs, path) ==
    IF tmp_path(path) = path THEN fs
    ELSE [fs EXCEPT ![path] = fs[tmp_path(path)], ![tmp_path(path)] = Absent]

\* Config.save(path), run to its end.
Config_save(self, fs, path) ==
    Config_save_rename(
        Config_save_write_all(Config_save_open(fs, path), path,
                              Config_save_lines(self)),
        path)

----------------------------------------------------------------------------
(* class MariaDB                                                           *)

MariaDB_init(system) ==
    [system |-> system, config |-> <<>>, installed |-> FALSE, started |-> FALSE]

RECURSIVE MariaDB_configure_items_merge(_, _, _)
\* Mutant: a later value replaces the recorded one instead of conflicting.
MariaDB_configure_items_merge(self, ctx, items) ==
    IF items = <<>> THEN [self |-> self, ctx |-> ctx]
    ELSE LET option == items[1][1]
             value == items[1][2]
             kept == SelectSeq(self.config, LAMBDA e : e[1] # option)
         IN  MariaDB_configure_items_merge(
                 [self EXCEPT !.config = DictAdd(kept, option, value)],
                 ctx, Tail(items))

RECURSIVE MariaDB_configure_items(_, _, _)
\* The loop of MariaDB.configure over config.items().
MariaDB_configure_items(self, ctx, items) ==
    IF items = <<>> THEN [self |-> self, ctx |-> ctx]
    ELSE LET option == items[1][1]
             value == items[1][2]
         IN  IF ~DictHas(self.config, option)
             THEN MariaDB_configure_items(
                      [self EXCEPT !.config = DictAdd(@, option, value)],
                      ctx, Tail(items))
             ELSE IF DictGet(self.config, option) # value
             THEN [self |-> self, ctx |-> Raise(ctx, ErrMariaDBConflict)]
             ELSE MariaDB_configure_items(self, ctx, Tail(items))

\* Mutant: no check of the installed flag.
MariaDB_configure_unchecked(self, ctx, config) ==
    MariaDB_configure_items(self, ctx, config)

MariaDB_configure(self, ctx, config) ==
    IF self.installed
    THEN [self |-> self, ctx |-> Raise(ctx, ErrMariaDBInstalled)]
    ELSE MariaDB_configure_items(self, ctx, config)

MariaDB_install_config_file(self, ctx) ==
    DockerContainerShell_write_file(
        ctx, "/etc/mysql/mariadb.conf.d/99-custom_config.cnf")

\* Mutant: the installed flag is set before the commands are run.
MariaDB_install_flag_first(self, ctx) ==
    [self |-> [self EXCEPT !.installed = TRUE],
     ctx |-> MariaDB_install_config_file(
                 self, Ubuntu_install_packages(Ubuntu_update_upgrade(ctx),
                                               <<"mariadb-server">>))]

MariaDB_install(self, ctx) ==
    LET c1 == Ubuntu_update_upgrade(ctx)
        c2 == Ubuntu_install_packages(c1, <<"mariadb-server">>)
        c3 == MariaDB_install_config_file(self, c2)
    IN  [self |-> IF Raised(c3) THEN self ELSE [self EXCEPT !.installed = TRUE],
         ctx |-> c3]

MariaDB_manage(ctx, action) == Ubuntu_manage_service(ctx, "mysql", action)

\* Mutant: start without looking at the started flag.
MariaDB_start_unconditional(self, ctx) ==
    LET c1 == MariaDB_manage(ctx, "start")
    IN  [self |-> IF Raised(c1) THEN self ELSE [self EXCEPT !.started = TRUE],
         ctx |-> c1]

MariaDB_start(self, ctx) ==
    IF Raised(ctx) \/ self.started THEN [self |-> self, ctx |-> ctx]
    ELSE LET c1 == MariaDB_manage(ctx, "start")
         IN  [self |-> IF Raised(c1) THEN self ELSE [self EXCEPT !.started = TRUE],
              ctx |-> c1]

MariaDB_restart(self, ctx) ==
    LET c1 == MariaDB_manage(ctx, "restart")
    IN  [self |-> IF Raised(c1) THEN self ELSE [self EXCEPT !.started = TRUE],
         ctx |-> c1]

\* Mutant: stop without looking at the started flag.
MariaDB_stop_unconditional(self, ctx) ==
    LET c1 == MariaDB_manage(ctx, "stop")
    IN  [self |-> IF Raised(c1) THEN self ELSE [self EXCEPT !.started = FALSE],
         ctx |-> c1]

MariaDB_stop(self, ctx) ==
    IF Raised(ctx) \/ ~self.started THEN [self |-> self, ctx |-> ctx]
    ELSE LET c1 == MariaDB_manage(ctx, "stop")
         IN  [self |-> IF Raised(c1) THEN self ELSE [self EXCEPT !.started = FALSE],
              ctx |-> c1]

\* The words of the command line MariaDB._execute builds for the SQL text
\* (an argument of several words stands for its words: the shell in the
\* container gets them joined by single spaces either way).
MysqlExecute(commands) == <<"mysql", "-u", "root", "--execute", "\"" \o commands \o "\"">>

MariaDB_execute(self, ctx, commands, may_fail) ==
    LET r == MariaDB_start(self, ctx)
    IN  [self |-> r.self,
         ctx |-> DockerContainerShell_run(r.ctx, MysqlExecute(commands), may_fail)]

\* The two SQL texts of MariaDB.add_user.
DropUser(user) == "DROP USER '" \o user \o "'@'localhost'; "

CreateUser(user, password, privileges, objects) ==
    "CREATE USER '" \o user \o "'@'localhost' IDENTIFIED BY '" \o password \o "'; "
    \o "GRANT " \o privileges \o " ON " \o objects \o " TO '" \o user
    \o "'@'localhost';"

\* Mutant: the drop is not allowed to fail.
MariaDB_add_user_strict_drop(self, ctx, user, password, privileges, objects) ==
    LET r1 == MariaDB_execute(self, ctx, DropUser(user), FALSE)
    IN  MariaDB_execute(r1.self, r1.ctx,
                        CreateUser(user, password, privileges, objects), FALSE)

MariaDB_add_user(self, ctx, user, password, privileges, objects) ==
    LET r1 == MariaDB_execute(self, ctx, DropUser(user), TRUE)
    IN  MariaDB_execute(r1.self, r1.ctx,
                        CreateUser(user, password, privileges, objects), FALSE)

----------------------------------------------------------------------------
(* class Apache2                                                           *)

sites_available_dir == "/etc/apache2/sites-available"

Apache2_init(system) ==
    [system |-> system, sites |-> <<>>, installed |-> FALSE, started |-> FALSE]

Apache2_add_site(self, ctx, id, config) ==
    IF self.installed
    THEN [self |-> self, ctx |-> Raise(ctx, ErrSiteInstalled)]
    ELSE IF DictHas(self.sites, id)
    THEN [self |-> self, ctx |-> Raise(ctx, ErrSiteExists)]
    ELSE [self |-> [self EXCEPT !.sites = DictAdd(@, id, config)], ctx |-> ctx]

Apache2_install_site_config_file(ctx, id) ==
    DockerContainerShell_write_file(
        ctx, sites_available_dir \o "/" \o id \o ".conf")

Apache2_enable_site(ctx, id) ==
    DockerContainerShell_run(ctx, <<"a2ensite", id>>, FALSE)

Apache2_disable_site(ctx, id) ==
    DockerContainerShell_run(ctx, <<"a2dissite", id>>, FALSE)

Apache2_disable_default_site(ctx) == Apache2_disable_site(ctx, "000-default")

RECURSIVE Apache2_install_site_files(_, _)
\* for id, config in self._sites.items(): self._install_site_config_file(id, config)
Apache2_install_site_files(ctx, sites) ==
    IF sites = <<>> THEN ctx
    ELSE Apache2_install_site_files(
             Apache2_install_site_config_file(ctx, sites[1][1]), Tail(sites))

RECURSIVE Apache2_enable_sites(_, _)
\* for id in self._sites: self._enable_site(id)
Apache2_enable_sites(ctx, sites) ==
    IF sites = <<>> THEN ctx
    ELSE Apache2_enable_sites(Apache2_enable_site(ctx, sites[1][1]), Tail(sites))

Apache2_install(self, ctx) ==
    LET c1 == Ubuntu_update_upgrade(ctx)
        c2 == Ubuntu_install_packages(c1, <<"apache2", "libapache2-mod-php">>)
        c3 == DockerContainerShell_run(c2, <<"a2enmod", "rewrite">>, FALSE)
        c4 == Apache2_install_site_files(c3, self.sites)
        c5 == Apache2_disable_default_site(c4)
        c6 == Apache2_enable_sites(c5, self.sites)
    IN  [self |-> IF Raised(c6) THEN self ELSE [self EXCEPT !.installed = TRUE],
         ctx |-> c6]

Apache2_manage(ctx, action) == Ubuntu_manage_service(ctx, "apache2", action)

Apache2_start(self, ctx) ==
    IF Raised(ctx) \/ self.started THEN [self |-> self, ctx |-> ctx]
    ELSE LET c1 == Apache2_manage(ctx, "start")
         IN  [self |-> IF Raised(c1) THEN self ELSE [self EXCEPT !.started = TRUE],
              ctx |-> c1]

Apache2_restart(self, ctx) ==
    LET c1 == Apache2_manage(ctx, "restart")
    IN  [self |-> IF Raised(c1) THEN self ELSE [self EXCEPT !.started = TRUE],
         ctx |-> c1]

Apache2_stop(self, ctx) ==
    IF Raised(ctx) \/ ~self.started THEN [self |-> self, ctx |-> ctx]
    ELSE LET c1 == Apache2_manage(ctx, "stop")
         IN  [self |-> IF Raised(c1) THEN self ELSE [self EXCEPT !.started = FALSE],
              ctx |-> c1]

----------------------------------------------------------------------------
(* class PHP                                                               *)

PHP_init(system) == [system |-> system, config |-> <<>>, installed |-> FALSE]

RECURSIVE PHP_configure_items_overwrite(_, _, _)
\* Mutant: a conflicting value is recorded before the error is raised.
PHP_configure_items_overwrite(self, ctx, items) ==
    IF items = <<>> THEN [self |-> self, ctx |-> ctx]
    ELSE LET option == items[1][1]
             value == items[1][2]
             kept == SelectSeq(self.config, LAMBDA e : e[1] # option)
         IN  IF ~DictHas(self.config, option)
             THEN PHP_configure_items_overwrite(
                      [self EXCEPT !.config = DictAdd(@, option, value)],
                      ctx, Tail(items))
             ELSE IF DictGet(self.config, option) # value
             THEN [self |-> [self EXCEPT !.config = DictAdd(kept, option, value)],
                   ctx |-> Raise(ctx, ErrPHPConflict)]
             ELSE PHP_configure_items_overwrite(self, ctx, Tail(items))

RECURSIVE PHP_configure_items(_, _, _)
\* The loop of PHP.configure over config.items().
PHP_configure_items(self, ctx, items) ==
    IF items = <<>> THEN [self |-> self, ctx |-> ctx]
    ELSE LET option == items[1][1]
             value == items[1][2]
         IN  IF ~DictHas(self.config, option)
             THEN PHP_configure_items(
                      [self EXCEPT !.config = DictAdd(@, option, value)],
                      ctx, Tail(items))
             ELSE IF DictGet(self.config, option) # value
             THEN [self |-> self, ctx |-> Raise(ctx, ErrPHPConflict)]
             ELSE PHP_configure_items(self, ctx, Tail(items))

PHP_configure(self, ctx, config) ==
    IF self.installed
    THEN [self |-> self, ctx |-> Raise(ctx, ErrPHPInstalled)]
    ELSE PHP_configure_items(self, ctx, config)

\* option.replace('.', r'\.') on the option names in use.
EscapeDots(option) ==
    CASE option = "date.timezone" -> "date\\.timezone"
      [] option = "opcache.validate_timestamps" -> "opcache\\.validate_timestamps"
      [] OTHER -> option

RECURSIVE PHP_update_config_file(_, _)
\* One sed command per recorded option, in the order they were recorded.
PHP_update_config_file(ctx, items) ==
    IF items = <<>> THEN ctx
    ELSE PHP_update_config_file(
             DockerContainerShell_run(
                 ctx,
                 <<"sed", "-i", "-r",
                   "\"/" \o EscapeDots(items[1][1]), "?=/{",
                   "s#.*#" \o items[1][1], "=", items[1][2] \o "#", "}\"",
                   "/etc/php/7.2/apache2/php.ini">>,
                 FALSE),
             Tail(items))

PHP_install(self, ctx) ==
    LET c1 == Ubuntu_update_upgrade(ctx)
        c2 == Ubuntu_install_packages(
                  c1, <<"php", "php-mysql", "php-gd", "php-curl", "php-apcu",
                        "php-cli", "php-json", "php-mbstring">>)
        c3 == PHP_update_config_file(c2, self.config)
    IN  [self |-> IF Raised(c3) THEN self ELSE [self EXCEPT !.installed = TRUE],
         ctx |-> c3]

----------------------------------------------------------------------------
(* class Phabricator                                                       *)

\* No Phabricator object has been constructed.
NoPhabricator ==
    [constructed |-> FALSE, system |-> 0, app_path |-> "", daemon_started |-> FALSE]

\* The fields of the shell of an Ubuntu object: every system of the harness
\* reaches the container of the same name.
ShellOf(system) == [container_name |-> container_name]

\* Mutant: the objects are compared by the values of their fields.
identical_by_value(ctx, args) ==
    IF Cardinality({ShellOf(args[i]) : i \in 1..Len(args)}) > 1
    THEN [ctx |-> Raise(ctx, ErrNotIdentical), value |-> None]
    ELSE [ctx |-> ctx, value |-> args[1]]

\* _identical(*args): the arguments are objects without __eq__ or __hash__,
\* so set(args) holds one element per distinct object.
identical(ctx, args) ==
    IF Cardinality({args[i] : i \in 1..Len(args)}) > 1
    THEN [ctx |-> Raise(ctx, ErrNotIdentical), value |-> None]
    ELSE [ctx |-> ctx, value |-> args[1]]

\* The set_default calls of Phabricator.__init__, in order.
Phabricator_defaults(config, password) ==
    LET c1 == Config_set_default(config, "app.id", "phabricator")
        c2 == Config_set_default(c1, "app.domain-base", "dev.local")
        c3 == Config_set_default(c2, "app.domain-files", "devfiles.local")
        c4 == Config_set_default(c3, "mysql.user.name", c3["app.id"] \o "_mysql_user")
        c5 == Config_set_default(c4, "mysql.user.password", password)
        c6 == Config_set_default(c5, "app.daemon.user.name", c5["app.id"] \o "_user")
    IN  Config_set_default(c6, "app.site.id", c6["app.id"] \o "_site")

\* The options Phabricator.__init__ asks of MariaDB and of PHP.
Phabricator_mysql_config ==
    <<<<"sql_mode", "STRICT_ALL_TABLES">>,
      <<"innodb_buffer_pool_size", "1600M">>,
      <<"max_allowed_packet", "33554432">>>>

Phabricator_php_config ==
    <<<<"date.timezone", "'Etc/UTC'">>,
      <<"post_max_size", "32M">>,
      <<"opcache.validate_timestamps", "0">>>>

\* Phabricator.__init__ after the identity check and the set_default calls:
\* same is what _identical returned and config the store with its defaults.
Phabricator_init_configure(m, w, p, config, same) ==
    LET c0 == same.ctx
        app_path == "/opt/" \o config["app.id"]
        webroot == app_path \o "/phabricator/webroot"
        r1 == IF Raised(c0) THEN [self |-> m, ctx |-> c0]
              ELSE MariaDB_configure(m, c0, Phabricator_mysql_config)
        r2 == IF Raised(r1.ctx) THEN [self |-> w, ctx |-> r1.ctx]
              ELSE Apache2_add_site(w, r1.ctx, config["app.site.id"],
                                    [ServerName |-> config["app.domain-base"],
                                     DocumentRoot |-> webroot])
        r3 == IF Raised(r2.ctx) THEN [self |-> p, ctx |-> r2.ctx]
              ELSE PHP_configure(p, r2.ctx, Phabricator_php_config)
    IN  [mysql |-> r1.self, webserver |-> r2.self, php |-> r3.self,
         config |-> config, ctx |-> r3.ctx,
         self |-> IF Raised(r3.ctx) THEN NoPhabricator
                  ELSE [constructed |-> TRUE, system |-> same.value,
                        app_path |-> app_path, daemon_started |-> FALSE]]

\* Phabricator.__init__ after the identity check.
Phabricator_init_defaults(m, w, p, config, same, password) ==
    Phabricator_init_configure(
        m, w, p,
        IF Raised(same.ctx) THEN config ELSE Phabricator_defaults(config, password),
        same)

\* Phabricator(mysql, webserver, php, config), with password the string
\* generate_password() returns.  The statements run in order and stop at the
\* first that raises; the object exists only when none did.
Phabricator_init(m, w, p, config, ctx, password) ==
    Phabricator_init_defaults(
        m, w, p, config, identical(ctx, <<m.system, w.system, p.system>>), password)

\* self._components: (name, path) of each, in order.
Phabricator_components(self) ==
    <<<<"libphutil", self.app_path \o "/libphutil">>,
      <<"arcanist", self.app_path \o "/arcanist">>,
      <<"phabricator", self.app_path \o "/phabricator">>>>

phabricator_path(self) == self.app_path \o "/phabricator"

\* The two commands that fetch a component (dir is posixpath.dirname(path),
\* which is the application path for every component).
GitClone(dir, component_name) ==
    <<"mkdir", "-p", dir, "&&", "cd", dir, "&&", "git", "clone",
      "https://github.com/phacility/" \o component_name \o ".git">>

GitPull(path) == <<"cd", path, "&&", "git", "pull">>

RECURSIVE Phabricator_retrieve_always_clone(_, _, _)
\* Mutant: the answer of the probe is not looked at.
Phabricator_retrieve_always_clone(ctx, dir, components) ==
    IF components = <<>> \/ Raised(ctx) THEN ctx
    ELSE LET probe == DockerContainerShell_does_file_exist(ctx, components[1][2])
         IN  Phabricator_retrieve_always_clone(
                 DockerContainerShell_run(probe.ctx, GitClone(dir, components[1][1]),
                                          FALSE),
                 dir, Tail(components))

RECURSIVE Phabricator_retrieve(_, _, _)
\* for component_name, path in self._components: clone or pull.
Phabricator_retrieve(ctx, dir, components) ==
    IF components = <<>> \/ Raised(ctx) THEN ctx
    ELSE LET component_name == components[1][1]
             path == components[1][2]
             probe == DockerContainerShell_does_file_exist(ctx, path)
             c1 == IF ~probe.value
                   THEN DockerContainerShell_run(probe.ctx,
                                                 GitClone(dir, component_name), FALSE)
                   ELSE DockerContainerShell_run(probe.ctx, GitPull(path), FALSE)
         IN  Phabricator_retrieve(c1, dir, Tail(components))

Phabricator_run_config_set(self, ctx, id, value) ==
    DockerContainerShell_run(
        ctx, <<phabricator_path(self) \o "/bin/config", "set", id, value>>, FALSE)

Phabricator_run_storage(self, ctx, args) ==
    DockerContainerShell_run(
        ctx, <<phabricator_path(self) \o "/bin/storage">> \o args, FALSE)

Phabricator_manage_daemon(self, ctx, action) ==
    DockerContainerShell_run(
        ctx, <<phabricator_path(self) \o "/bin/phd", action>>, FALSE)

Phabricator_restart_daemon(self, ctx) ==
    LET c1 == Phabricator_manage_daemon(self, ctx, "restart")
    IN  [self |-> IF Raised(c1) THEN self ELSE [self EXCEPT !.daemon_started = TRUE],
         ctx |-> c1]

Phabricator_start_daemon(self, ctx) == Phabricator_restart_daemon(self, ctx)

\* Phabricator.restart: the database, the daemon, the web server.
Phabricator_restart(self, m, w, ctx) ==
    LET r1 == MariaDB_restart(m, ctx)
        r2 == Phabricator_restart_daemon(self, r1.ctx)
        r3 == Apache2_restart(w, r2.ctx)
    IN  [self |-> r2.self, mysql |-> r1.self, webserver |-> r3.self, ctx |-> r3.ctx]

\* Phabricator.start
Phabricator_start(self, m, w, ctx) ==
    LET r1 == MariaDB_start(m, ctx)
        r2 == Phabricator_start_daemon(self, r1.ctx)
        r3 == Apache2_start(w, r2.ctx)
    IN  [self |-> r2.self, mysql |-> r1.self, webserver |-> r3.self, ctx |-> r3.ctx]

\* The objects a statement of install works on, and the context.
Frame(self, m, w, p, ctx) ==
    [self |-> self, mysql |-> m, webserver |-> w, php |-> p, ctx |-> ctx]

\* The frame after a method of the object in the named field has returned r.
AfterMethod(s, field, r) == [s EXCEPT ![field] = r.self, !.ctx = r.ctx]

\* The frame after self.restart() or self.start() has returned r.
AfterRestart(s, r) ==
    [s EXCEPT !.self = r.self, !.mysql = r.mysql, !.webserver = r.webserver,
              !.ctx = r.ctx]

\* Statement n of Phabricator.install, in the order of the source.  The ids
\* it reads from the store are ids that __init__ has set.
Phabricator_install_statement(n, config, s) ==
    CASE n = 1 -> [s EXCEPT !.ctx = Ubuntu_update_upgrade(s.ctx)]
      [] n = 2 -> AfterMethod(s, "mysql", MariaDB_install(s.mysql, s.ctx))
      [] n = 3 -> AfterMethod(s, "mysql",
                      MariaDB_add_user(s.mysql, s.ctx, config["mysql.user.name"],
                                       config["mysql.user.password"],
                                       Privileges, Objects))
      [] n = 4 -> AfterMethod(s, "webserver", Apache2_install(s.webserver, s.ctx))
      [] n = 5 -> AfterMethod(s, "php", PHP_install(s.php, s.ctx))
      [] n = 6 -> [s EXCEPT !.ctx = Ubuntu_install_packages(
                      s.ctx, <<"git", "mercurial", "subversion", "python-pygments",
                               "imagemagick">>)]
      [] n = 7 -> [s EXCEPT !.ctx = Phabricator_retrieve(
                      s.ctx, s.self.app_path, Phabricator_components(s.self))]
      [] n = 8 -> [s EXCEPT !.ctx = Phabricator_run_config_set(
                      s.self, s.ctx, "mysql.user", config["mysql.user.name"])]
      [] n = 9 -> [s EXCEPT !.ctx = Phabricator_run_config_set(
                      s.self, s.ctx, "mysql.pass", config["mysql.user.password"])]
      [] n = 10 -> [s EXCEPT !.ctx = Phabricator_run_config_set(
                       s.self, s.ctx, "phabricator.base-uri",
                       "'http://" \o config["app.domain-base"] \o "/'")]
      [] n = 11 -> [s EXCEPT !.ctx = Phabricator_run_config_set(
                       s.self, s.ctx, "security.alternate-file-domain",
                       "'http://" \o config["app.domain-files"] \o "/'")]
      [] n = 12 -> [s EXCEPT !.ctx = Phabricator_run_config_set(
                       s.self, s.ctx, "pygments.enabled", "true")]
      [] n = 13 -> [s EXCEPT !.ctx = Phabricator_run_config_set(
                       s.self, s.ctx, "metamta.mail-adapter",
                       "PhabricatorMailImplementationPHPMailerAdapter")]
      [] n = 14 -> [s EXCEPT !.ctx = DockerContainerShell_run(
                       s.ctx, <<"mkdir", "-p", "/opt/repos">>, FALSE)]
      [] n = 15 -> [s EXCEPT !.ctx = Phabricator_run_config_set(
                       s.self, s.ctx, "repository.default-local-path", "/opt/repos")]
      [] n = 16 -> [s EXCEPT !.ctx = DockerContainerShell_run(
                       s.ctx, <<"mkdir", "-p", "/opt/files">>, FALSE)]
      [] n = 17 -> [s EXCEPT !.ctx = DockerContainerShell_run(
                       s.ctx, <<"chown", "-R", "www-data:www-data", "/opt/files">>,
                       FALSE)]
      [] n = 18 -> [s EXCEPT !.ctx = Phabricator_run_config_set(
                       s.self, s.ctx, "storage.local-disk.path", "/opt/files")]
      [] n = 19 -> [s EXCEPT !.ctx = Phabricator_run_storage(
                       s.self, s.ctx, <<"upgrade", "--force", "--user", "root">>)]
      [] n = 20 -> AfterRestart(s, Phabricator_restart(s.self, s.mysql, s.webserver,
                                                       s.ctx))
      [] n = 21 -> [s EXCEPT !.ctx = DockerContainerShell_run(
                       s.ctx, <<"ps", "aux">>, FALSE)]

RECURSIVE Phabricator_install_statements(_, _, _, _)
\* The first n statements of install in the given order, one after another.
Phabricator_install_statements(order, n, config, s) ==
    IF n = 0 THEN s
    ELSE Phabricator_install_statement(
             order[n], config,
             Phabricator_install_statements(order, n - 1, config, s))

\* Mutant: the web server is set up before the database user is created.
Phabricator_install_webserver_first(self, m, w, p, config, ctx) ==
    Phabricator_install_statements(
        <<1, 2, 4, 3, 5, 6, 7, 8, 9, 10, 11, 12, 13, 14, 15, 16, 17, 18, 19, 20, 21>>,
        21, config, Frame(self, m, w, p, ctx))

\* Phabricator.install
Phabricator_install(self, m, w, p, config, ctx) ==
    Phabricator_install_statements(
        <<1, 2, 3, 4, 5, 6, 7, 8, 9, 10, 11, 12, 13, 14, 15, 16, 17, 18, 19, 20, 21>>,
        21, config, Frame(self, m, w, p, ctx))

\* The end of main(): c is the constructed application and s the frame the
\* try block ended with.  With finally the store is saved however the block
\* ended; without it, only when the block ended without an error.
main_end(files, c, s, finally) ==
    [phab |-> s.self, mysql |-> s.mysql, webserver |-> s.webserver, php |-> s.php,
     config |-> c.config, ctx |-> s.ctx,
     files |-> IF finally \/ ~Raised(s.ctx)
               THEN Config_save(c.config, files, "config") ELSE files]

\* phab.install() and phab.start() on the frame s.
main_install(c, s) ==
    Phabricator_install(s.self, s.mysql, s.webserver, s.php, c.config, s.ctx)

main_start(s) ==
    AfterRestart(s, Phabricator_start(s.self, s.mysql, s.webserver, s.ctx))

\* The try block of main() on the application c that was constructed.
main_try(files, c, finally) ==
    main_end(files, c,
             main_start(main_install(c, Frame(c.self, c.mysql, c.webserver, c.php,
                                              c.ctx))),
             finally)

\* main() after config.load('config') has returned or raised l.  The load
\* stands before the try statement: when it raises, nothing else runs.
main_loaded(files, password, l, finally) ==
    IF Raised(l.ctx)
    THEN [phab |-> NoPhabricator, mysql |-> MariaDB_init(1),
          webserver |-> Apache2_init(1), php |-> PHP_init(1),
          config |-> l.self, ctx |-> l.ctx, files |-> files]
    ELSE main_try(files,
                  Phabricator_init(MariaDB_init(1), Apache2_init(1), PHP_init(1),
                                   l.self, l.ctx, password),
                  finally)

\* Mutant: main without the try statement: an error ends the process
\* before the store is saved.
main_no_finally(files, password, fail) ==
    main_loaded(files, password,
                Config_load(Config_init, Ctx(fail), files["config"]), FALSE)

\* main(), one process from start to end, with password the string
\* generate_password() returns and fail the commands that exit non-zero.
main(files, password, fail) ==
    main_loaded(files, password,
                Config_load(Config_init, Ctx(fail), files["config"]), TRUE)

----------------------------------------------------------------------------
(* The component harness: any sequence of calls on one system and on one   *)
(* of the three components built on it, every issued command free to fail. *)
(* A component's methods read and write that component alone (the system   *)
(* and the shells hold no state), so a run exercises one component.        *)

TheSystem == 1

InitComponents ==
    /\ mysql = MariaDB_init(TheSystem)
    /\ webserver = Apache2_init(TheSystem)
    /\ php = PHP_init(TheSystem)

InitHistory ==
    /\ calls = 0
    /\ lastOp = [name |-> "none", arg |-> <<>>]
    /\ repeated = "no"
    /\ lastResult = NoError
    /\ lastIssued = <<>>
    /\ lastReturn = None
    /\ lastFailed = {}

\* No save in progress.
NotSaving == [pc |-> "idle", todo |-> <<>>]

\* Nothing is being saved and no temporary file is left over.
InitSave ==
    /\ tmp = Absent
    /\ saving = NotSaving

\* A container in which no component has been cloned.
InitTarget == target = {}

InitConfig ==
    /\ options = Config_init
    /\ disk = Absent

NoCall == [shell |-> "none", command |-> <<>>, may_fail |-> FALSE]
NoResult == [kind |-> "none", status |-> 0, stdout |-> <<>>]
NoProcess ==
    [alive |-> FALSE, todo |-> <<>>, written |-> 0, to_stdout |-> <<>>, status |-> 0]

InitRun ==
    /\ call = NoCall
    /\ run = [pc |-> "idle", command |-> <<>>, may_fail |-> FALSE, stdout |-> <<>>,
              popens |-> 0, result |-> NoResult]
    /\ process = NoProcess
    /\ pipes = [stdout |-> <<>>, stderr |-> <<>>]

Init ==
    /\ InitComponents
    /\ InitTarget
    /\ InitSave
    /\ underTest \in {"mysql", "webserver", "php"}
    /\ InitHistory
    /\ InitConfig
    /\ InitRun
    /\ phab = NoPhabricator

\* Records the call just made and what came of it.
Returned(name, arg, ctx, value) ==
    /\ lastReturn' = IF Raised(ctx) THEN None ELSE value
    /\ calls' = 1 - calls
    /\ repeated' = IF lastOp.name = name /\ lastOp.arg = arg
                   THEN IF lastResult = NoError THEN "after ok" ELSE "after error"
                   ELSE "no"
    /\ lastOp' = [name |-> name, arg |-> arg]
    /\ lastResult' = ctx.raised
    /\ lastIssued' = ctx.issued
    /\ lastFailed' = ctx.fail \cap (1..Len(ctx.issued))
    /\ UNCHANGED underTest

\* A call that returns nothing.
Called(name, arg, ctx) ==
    /\ Returned(name, arg, ctx, None)

\* This step is a call that repeats the call before it (same method, same
\* argument).
RepeatsLastCall ==
    /\ calls' # calls
    /\ lastOp'.name = lastOp.name
    /\ lastOp'.arg = lastOp.arg

\* This step is a call of the named method.
Calls(name) == calls' # calls /\ lastOp'.name = name

UbuntuUpdate ==
    \E fail \in Failures(Ubuntu_update(Ctx({}))) :
        /\ Called("Ubuntu.update", <<>>, Ubuntu_update(Ctx(fail)))
        /\ UNCHANGED <<mysql, webserver, php, options, disk, runVars, phab, target, saveVars>>

UbuntuUpgrade ==
    \E fail \in Failures(Ubuntu_upgrade(Ctx({}))) :
        /\ Called("Ubuntu.upgrade", <<>>, Ubuntu_upgrade(Ctx(fail)))
        /\ UNCHANGED <<mysql, webserver, php, options, disk, runVars, phab, target, saveVars>>

UbuntuUpdateUpgrade ==
    \E fail \in Failures(Ubuntu_update_upgrade(Ctx({}))) :
        /\ Called("Ubuntu.update_upgrade", <<>>, Ubuntu_update_upgrade(Ctx(fail)))
        /\ UNCHANGED <<mysql, webserver, php, options, disk, runVars, phab, target, saveVars>>

UbuntuInstallPackages ==
    \E packages \in PackageLists :
    \E fail \in Failures(Ubuntu_install_packages(Ctx({}), packages)) :
        /\ Called("Ubuntu.install_packages", packages,
                  Ubuntu_install_packages(Ctx(fail), packages))
        /\ UNCHANGED <<mysql, webserver, php, options, disk, runVars, phab, target, saveVars>>

UbuntuManageService ==
    \E service \in {"mysql", "apache2"}, action \in {"start", "restart", "stop"} :
    \E fail \in Failures(Ubuntu_manage_service(Ctx({}), service, action)) :
        /\ Called("Ubuntu._manage_service", <<service, action>>,
                  Ubuntu_manage_service(Ctx(fail), service, action))
        /\ UNCHANGED <<mysql, webserver, php, options, disk, runVars, phab, target, saveVars>>

MariaDBConfigure ==
    /\ underTest = "mysql"
    /\ \E config \in MariaDBConfigs :
        LET r == MariaDB_configure(mysql, Ctx({}), config)
        IN  /\ mysql' = r.self
            /\ Called("MariaDB.configure", config, r.ctx)
            /\ UNCHANGED <<webserver, php, options, disk, runVars, phab, target, saveVars>>

MariaDBInstall ==
    /\ underTest = "mysql"
    /\ \E fail \in Failures(MariaDB_install(mysql, Ctx({})).ctx) :
        LET r == MariaDB_install(mysql, Ctx(fail))
        IN  /\ mysql' = r.self
            /\ Called("MariaDB.install", <<>>, r.ctx)
            /\ UNCHANGED <<webserver, php, options, disk, runVars, phab, target, saveVars>>

MariaDBStart ==
    /\ underTest = "mysql"
    /\ \E fail \in Failures(MariaDB_start(mysql, Ctx({})).ctx) :
        LET r == MariaDB_start(mysql, Ctx(fail))
        IN  /\ mysql' = r.self
            /\ Called("MariaDB.start", <<>>, r.ctx)
            /\ UNCHANGED <<webserver, php, options, disk, runVars, phab, target, saveVars>>

MariaDBRestart ==
    /\ underTest = "mysql"
    /\ \E fail \in Failures(MariaDB_restart(mysql, Ctx({})).ctx) :
        LET r == MariaDB_restart(mysql, Ctx(fail))
        IN  /\ mysql' = r.self
            /\ Called("MariaDB.restart", <<>>, r.ctx)
            /\ UNCHANGED <<webserver, php, options, disk, runVars, phab, target, saveVars>>

MariaDBStop ==
    /\ underTest = "mysql"
    /\ \E fail \in Failures(MariaDB_stop(mysql, Ctx({})).ctx) :
        LET r == MariaDB_stop(mysql, Ctx(fail))
        IN  /\ mysql' = r.self
            /\ Called("MariaDB.stop", <<>>, r.ctx)
            /\ UNCHANGED <<webserver, php, options, disk, runVars, phab, target, saveVars>>

MariaDBAddUser ==
    /\ underTest = "mysql"
    /\ \E user \in Users, password \in Passwords :
       \E fail \in Failures2(MariaDB_add_user(mysql, Ctx({}), user, password,
                                              Privileges, Objects).ctx) :
        LET r == MariaDB_add_user(mysql, Ctx(fail), user, password,
                                  Privileges, Objects)
        IN  /\ mysql' = r.self
            /\ Called("MariaDB.add_user", <<user, password>>, r.ctx)
            /\ UNCHANGED <<webserver, php, options, disk, runVars, phab, target, saveVars>>

Apache2AddSite ==
    /\ underTest = "webserver"
    /\ \E id \in SiteIds, config \in SiteConfigs :
        LET r == Apache2_add_site(webserver, Ctx({}), id, config)
        IN  /\ webserver' = r.self
            /\ Called("Apache2.add_site", <<id, config>>, r.ctx)
            /\ UNCHANGED <<mysql, php, options, disk, runVars, phab, target, saveVars>>

Apache2Install ==
    /\ underTest = "webserver"
    /\ \E fail \in Failures(Apache2_install(webserver, Ctx({})).ctx) :
        LET r == Apache2_install(webserver, Ctx(fail))
        IN  /\ webserver' = r.self
            /\ Called("Apache2.install", <<>>, r.ctx)
            /\ UNCHANGED <<mysql, php, options, disk, runVars, phab, target, saveVars>>

Apache2Start ==
    /\ underTest = "webserver"
    /\ \E fail \in Failures(Apache2_start(webserver, Ctx({})).ctx) :
        LET r == Apache2_start(webserver, Ctx(fail))
        IN  /\ webserver' = r.self
            /\ Called("Apache2.start", <<>>, r.ctx)
            /\ UNCHANGED <<mysql, php, options, disk, runVars, phab, target, saveVars>>

Apache2Restart ==
    /\ underTest = "webserver"
    /\ \E fail \in Failures(Apache2_restart(webserver, Ctx({})).ctx) :
        LET r == Apache2_restart(webserver, Ctx(fail))
        IN  /\ webserver' = r.self
            /\ Called("Apache2.restart", <<>>, r.ctx)
            /\ UNCHANGED <<mysql, php, options, disk, runVars, phab, target, saveVars>>

Apache2Stop ==
    /\ underTest = "webserver"
    /\ \E fail \in Failures(Apache2_stop(webserver, Ctx({})).ctx) :
        LET r == Apache2_stop(webserver, Ctx(fail))
        IN  /\ webserver' = r.self
            /\ Called("Apache2.stop", <<>>, r.ctx)
            /\ UNCHANGED <<mysql, php, options, disk, runVars, phab, target, saveVars>>

PHPConfigure ==
    /\ underTest = "php"
    /\ \E config \in PHPConfigs :
        LET r == PHP_configure(php, Ctx({}), config)
        IN  /\ php' = r.self
            /\ Called("PHP.configure", config, r.ctx)
            /\ UNCHANGED <<mysql, webserver, options, disk, runVars, phab, target, saveVars>>

PHPInstall ==
    /\ underTest = "php"
    /\ \E fail \in Failures(PHP_install(php, Ctx({})).ctx) :
        LET r == PHP_install(php, Ctx(fail))
        IN  /\ php' = r.self
            /\ Called("PHP.install", <<>>, r.ctx)
            /\ UNCHANGED <<mysql, webserver, options, disk, runVars, phab, target, saveVars>>

Next ==
    \/ UbuntuUpdate
    \/ UbuntuUpgrade
    \/ UbuntuUpdateUpgrade
    \/ UbuntuInstallPackages
    \/ UbuntuManageService
    \/ MariaDBConfigure
    \/ MariaDBInstall
    \/ MariaDBStart
    \/ MariaDBRestart
    \/ MariaDBStop
    \/ MariaDBAddUser
    \/ Apache2AddSite
    \/ Apache2Install
    \/ Apache2Start
    \/ Apache2Restart
    \/ Apache2Stop
    \/ PHPConfigure
    \/ PHPInstall

Spec == Init /\ [][Next]_vars

----------------------------------------------------------------------------
(* The configuration store harness: any sequence of get, set, set_default  *)
(* and load calls on one Config, the file holding what some earlier        *)
(* save() wrote, or missing.                                               *)

\* The stores over the harness' ids and values.
Stores == UNION {[ids -> Values] : ids \in SUBSET Keys}

InitStore ==
    /\ InitComponents
    /\ InitTarget
    /\ InitSave
    /\ underTest = "config"
    /\ InitHistory
    /\ InitRun
    /\ phab = NoPhabricator
    /\ options = Config_init
    /\ disk \in {Absent} \union {File(Config_save_lines(m)) : m \in Stores}

ConfigGet ==
    \E id \in Keys :
        LET r == Config_getitem(options, Ctx({}), id)
        IN  /\ Returned("Config.__getitem__", <<id>>, r.ctx, r.value)
            /\ UNCHANGED <<options, disk, mysql, webserver, php, runVars, phab, target, saveVars>>

ConfigSet ==
    \E id \in Keys, value \in Values :
        /\ options' = Config_setitem(options, id, value)
        /\ Called("Config.__setitem__", <<id, value>>, Ctx({}))
        /\ UNCHANGED <<disk, mysql, webserver, php, runVars, phab, target, saveVars>>

ConfigSetDefault ==
    \E id \in Keys, value \in Values :
        /\ options' = Config_set_default(options, id, value)
        /\ Called("Config.set_default", <<id, value>>, Ctx({}))
        /\ UNCHANGED <<disk, mysql, webserver, php, runVars, phab, target, saveVars>>

ConfigLoad ==
    LET r == Config_load(options, Ctx({}), disk)
    IN  /\ options' = r.self
        /\ Called("Config.load", <<"config">>, r.ctx)
        /\ UNCHANGED <<disk, mysql, webserver, php, runVars, phab, target, saveVars>>

\* Config(): a fresh store.
ConfigNew ==
    /\ options' = Config_init
    /\ Called("Config.__init__", <<>>, Ctx({}))
    /\ UNCHANGED <<disk, mysql, webserver, php, runVars, phab, target, saveVars>>

ConfigSave ==
    LET fs == Config_save(options, Files(disk, tmp), "config")
    IN  /\ disk' = fs["config"]
        /\ tmp' = fs["config.tmp"]
        /\ Called("Config.save", <<"config">>, Ctx({}))
        /\ UNCHANGED <<options, mysql, webserver, php, runVars, phab, target, saving>>

NextStore ==
    \/ ConfigNew
    \/ ConfigGet
    \/ ConfigSet
    \/ ConfigSetDefault
    \/ ConfigLoad
    \/ ConfigSave

SpecStore == InitStore /\ [][NextStore]_vars

\* What get(id) gives on a store: the value, or the error it raises.
Get(self, id) ==
    LET r == Config_getitem(self, Ctx({}), id)
    IN  IF Raised(r.ctx) THEN r.ctx.raised ELSE r.value

\* The position of an id in the sorted order of ids.
Rank(id) == CHOOSE i \in 1..Len(SortedIds) : SortedIds[i] = id

\* The ids of the entries of a saved file, in the order they are written.
SavedIds(text) ==
    LET d == Eval(text) IN [i \in 1..Len(d) |-> d[i][1]]

C9_SetDefaultKeepsValue ==
    [][Calls("Config.set_default") =>
          LET K == lastOp'.arg[1]
              V2 == lastOp'.arg[2]
          IN  /\ lastResult' = NoError
              /\ Get(options', K) = IF K \in DOMAIN options THEN Get(options, K) ELSE V2
              /\ DOMAIN options' = DOMAIN options \union {K}
              /\ \A id \in DOMAIN options : id # K => options'[id] = options[id]]_vars

\* C9 witness: set_default(K, V2) has returned and K still has another
\* value, which an earlier set or load gave it.
C9_Witness ==
    /\ lastOp.name = "Config.set_default"
    /\ lastOp.arg[1] \in DOMAIN options
    /\ options[lastOp.arg[1]] # lastOp.arg[2]
    /\ Cardinality(DOMAIN options) = 2

\* C10: get(K) on an absent key raises the unknown-option error, returns no
\* value and leaves the store as it was; a set_default(K, V) that follows it
\* takes effect.
C10_GetAbsentRaises ==
    [][/\ (Calls("Config.__getitem__") /\ lastOp'.arg[1] \notin DOMAIN options) =>
            /\ lastResult' = ErrUnknownOption
            /\ lastReturn' = None
            /\ options' = options
       /\ (/\ lastOp.name = "Config.__getitem__"
           /\ lastResult = ErrUnknownOption
           /\ Calls("Config.set_default")
           /\ lastOp'.arg[1] = lastOp.arg[1]) =>
               /\ lastOp.arg[1] \notin DOMAIN options
               /\ Get(options', lastOp.arg[1]) = lastOp'.arg[2]]_vars

\* C10 witness: get(K) has just raised on a store that holds another key
\* and not K.
C10_Witness ==
    /\ lastOp.name = "Config.__getitem__"
    /\ lastResult = ErrUnknownOption
    /\ lastOp.arg[1] \notin DOMAIN options
    /\ options # Config_init

----------------------------------------------------------------------------
(* The save harness: Config.save statement by statement, in a process that *)
(* may be killed between any two of them.  The store dies with the         *)
(* process; the two files stay as they are, and the next process starts    *)
(* with a fresh store, which it may load.                                  *)

InitKill ==
    /\ InitComponents
    /\ InitTarget
    /\ InitSave
    /\ underTest = "save"
    /\ InitHistory
    /\ InitRun
    /\ phab = NoPhabricator
    /\ options = Config_init
    /\ disk \in {Absent} \union {File(Config_save_lines(m)) : m \in Stores}

\* config[id] = value, between two calls of save().
SetBetweenSaves ==
    /\ saving.pc = "idle"
    /\ ConfigSet

\* config.load('config'), between two calls of save().
LoadBetweenSaves ==
    /\ saving.pc = "idle"
    /\ ConfigLoad

\* with open(tmp_path, 'wt') as f
SaveOpen ==
    /\ saving.pc = "idle"
    /\ LET fs == Config_save_open(Files(disk, tmp), "config")
       IN  /\ disk' = fs["config"]
           /\ tmp' = fs["config.tmp"]
    /\ saving' = [pc |-> "write", todo |-> Config_save_lines(options)]
    /\ UNCHANGED <<historyVars, options, mysql, webserver, php, runVars, phab, target>>

\* One f.write(...), the line reaching the file at once.
SaveWrite ==
    /\ saving.pc = "write"
    /\ saving.todo # <<>>
    /\ LET fs == Config_save_write(Files(disk, tmp), "config", Head(saving.todo))
       IN  /\ disk' = fs["config"]
           /\ tmp' = fs["config.tmp"]
    /\ saving' = [saving EXCEPT !.todo = Tail(@)]
    /\ UNCHANGED <<historyVars, options, mysql, webserver, php, runVars, phab, target>>

\* The end of the with block: the file is closed.
SaveClose ==
    /\ saving.pc = "write"
    /\ saving.todo = <<>>
    /\ saving' = [saving EXCEPT !.pc = "rename"]
    /\ UNCHANGED <<historyVars, options, disk, tmp, mysql, webserver, php, runVars,
                   phab, target>>

\* os.rename(tmp_path, path), and save() returns.
SaveRename ==
    /\ saving.pc = "rename"
    /\ LET fs == Config_save_rename(Files(disk, tmp), "config")
       IN  /\ disk' = fs["config"]
           /\ tmp' = fs["config.tmp"]
    /\ saving' = NotSaving
    /\ Called("Config.save", <<"config">>, Ctx({}))
    /\ UNCHANGED <<options, mysql, webserver, php, runVars, phab, target>>

\* The process is killed; the next one starts with config = Config().
Kill ==
    /\ saving' = NotSaving
    /\ options' = Config_init
    /\ Called("kill", <<saving.pc>>, Ctx({}))
    /\ UNCHANGED <<disk, tmp, mysql, webserver, php, runVars, phab, target>>

NextKill ==
    \/ SetBetweenSaves
    \/ LoadBetweenSaves
    \/ SaveOpen
    \/ SaveWrite
    \/ SaveClose
    \/ SaveRename
    \/ Kill

SpecKill == InitKill /\ [][NextKill]_vars

\* A file holds a complete mapping: all that some save() wrote, from the
\* opening brace to the closing one.
Complete(file) ==
    file.exists /\ \E m \in Stores : file.text = Config_save_lines(m)

\* C12: whenever the process is killed, also in the middle of save(), the
\* file at path is the file it was before save() was called, or, once the
\* rename has happened, the complete new mapping: the only step that changes
\* the file at path is the rename, and it puts the complete mapping of the
\* store there.  What is partly written is the temporary file.
C12_SaveIsAtomic ==
    [][/\ disk' # disk =>
            /\ saving.pc = "rename"
            /\ disk' = File(Config_save_lines(options))
       /\ disk'.exists => Complete(disk')
       /\ (saving.pc \in {"idle", "write"} /\ saving'.pc \in {"write", "rename"}) =>
            /\ tmp'.exists
            /\ disk' = disk]_vars

\* C12 witness: the process has been killed in the middle of save(); the
\* temporary file holds a part of the new mapping and the file at path
\* still holds the complete mapping of before, which is another one.
C12_Witness ==
    /\ lastOp.name = "kill"
    /\ lastOp.arg = <<"write">>
    /\ tmp.exists
    /\ Len(tmp.text) = 2
    /\ ~Complete(tmp)
    /\ Complete(disk)
    /\ Len(disk.text) = 2

----------------------------------------------------------------------------
(* Properties of the component harness.                                    *)

\* The calls that the comments at deploy.py:184, 188 and 196 want made once.
AptCalls == {"Ubuntu.update", "Ubuntu.upgrade", "Ubuntu.install_packages"}

\* C1: an apt-get action that has been executed successfully is not executed
\* again: a call that repeats a successful update, upgrade or
\* install_packages issues no command.
C1_RunOnceExecutesOnce ==
    [][(lastOp.name \in AptCalls /\ lastResult = NoError /\ RepeatsLastCall)
           => lastIssued' = <<>>]_vars

\* C2: an apt-get action whose command failed is executed again by the next
\* call of the same action, and a command that carries no action id (a
\* service management command) is executed by every call.
C2_FailedCommandRunsAgain ==
    [][/\ (lastOp.name \in AptCalls /\ lastResult = ErrShell /\ RepeatsLastCall)
            => (Len(lastIssued') = 1 /\ lastIssued' = lastIssued)
       /\ Calls("Ubuntu._manage_service")
            => lastIssued' = <<DockerExec(<<"service">> \o lastOp'.arg)>>]_vars

\* C2 witness: an update that was executed again right after it had failed.
C2_Witness ==
    /\ lastOp.name = "Ubuntu.update"
    /\ repeated = "after error"
    /\ lastIssued = <<DockerExec(<<"DEBIAN_FRONTEND=noninteractive", "apt-get", "update">>)>>

\* The second of two configure() calls that each pass one option, the same
\* option, the first having succeeded: it raises conflict iff the values
\* differ, records nothing, issues nothing and leaves the option at the first
\* value.
SecondConfigure(name, self, selfAfter, conflict) ==
    (/\ lastOp.name = name /\ lastResult = NoError /\ Len(lastOp.arg) = 1
     /\ Calls(name) /\ Len(lastOp'.arg) = 1
     /\ lastOp'.arg[1][1] = lastOp.arg[1][1])
    => LET opt == lastOp.arg[1][1]
           v1 == lastOp.arg[1][2]
           v2 == lastOp'.arg[1][2]
       IN  /\ ~self.installed
           /\ lastResult' = IF v1 = v2 THEN NoError ELSE conflict
           /\ lastIssued' = <<>>
           /\ selfAfter = self
           /\ DictHas(selfAfter.config, opt)
           /\ DictGet(selfAfter.config, opt) = v1

\* C4: configure(c, {opt: v1}) followed by configure(c, {opt: v2}) on a
\* component that is not installed raises the conflict error when v1 # v2 and
\* succeeds silently when v1 = v2; opt is v1 afterwards in both cases.
C4_SecondConfigureConflicts ==
    [][/\ SecondConfigure("MariaDB.configure", mysql, mysql', ErrMariaDBConflict)
       /\ SecondConfigure("PHP.configure", php, php', ErrPHPConflict)]_vars

\* C4 witness: a one-option configure() has just raised the conflict error
\* and the option still has the other value.
C4_Witness ==
    /\ lastOp.name = "MariaDB.configure"
    /\ Len(lastOp.arg) = 1
    /\ lastResult = ErrMariaDBConflict
    /\ ~mysql.installed
    /\ DictHas(mysql.config, lastOp.arg[1][1])
    /\ DictGet(mysql.config, lastOp.arg[1][1]) # lastOp.arg[1][2]

\* C5: once install() has completed, the installed flag stays set and every
\* configure() (add_site() for the web server) raises, issues no command and
\* leaves the component as it was, whatever it is passed.
C5_NoConfigureAfterInstall ==
    [][/\ mysql.installed =>
            /\ mysql'.installed
            /\ Calls("MariaDB.configure") =>
                   (lastResult' = ErrMariaDBInstalled /\ mysql' = mysql
                    /\ lastIssued' = <<>>)
       /\ php.installed =>
            /\ php'.installed
            /\ Calls("PHP.configure") =>
                   (lastResult' = ErrPHPInstalled /\ php' = php
                    /\ lastIssued' = <<>>)
       /\ webserver.installed =>
            /\ webserver'.installed
            /\ Calls("Apache2.add_site") =>
                   (lastResult' = ErrSiteInstalled /\ webserver' = webserver
                    /\ lastIssued' = <<>>)]_vars

\* C5 witness: configure() was refused after install() although every option
\* it passed equals the recorded value.
C5_Witness ==
    /\ mysql.installed
    /\ lastOp.name = "MariaDB.configure"
    /\ lastResult = ErrMariaDBInstalled
    /\ Len(lastOp.arg) > 0
    /\ \A i \in 1..Len(lastOp.arg) :
           /\ DictHas(mysql.config, lastOp.arg[i][1])
           /\ DictGet(mysql.config, lastOp.arg[i][1]) = lastOp.arg[i][2]

ServiceCommand(service, action) == DockerExec(<<"service", service, action>>)

\* start() issues the start command only when started is false.
StartGuarded(name, service, self) ==
    Calls(name) =>
        lastIssued' = IF self.started THEN <<>>
                      ELSE <<ServiceCommand(service, "start")>>

\* C6 as stated: start() issues the start command only when started is
\* false, the second of two consecutive start() calls issues nothing after
\* the first issued the command, and restart() issues exactly the restart
\* command and leaves started true.
C6_Original_Component(prefix, service, self, selfAfter) ==
    /\ StartGuarded(prefix \o ".start", service, self)
    /\ (lastOp.name = prefix \o ".start" /\ lastIssued # <<>>
        /\ Calls(prefix \o ".start")) => lastIssued' = <<>>
    /\ Calls(prefix \o ".restart") =>
           /\ lastIssued' = <<ServiceCommand(service, "restart")>>
           /\ selfAfter.started

\* C6 as stated, for the database and the web server.
C6_StartOnceRestartAlways ==
    [][/\ C6_Original_Component("MariaDB", "mysql", mysql, mysql')
       /\ C6_Original_Component("Apache2", "apache2", webserver, webserver')]_vars

C6_Amended_Component(prefix, service, self, selfAfter) ==
    /\ StartGuarded(prefix \o ".start", service, self)
    /\ (lastOp.name = prefix \o ".start" /\ lastIssued # <<>>
        /\ lastResult = NoError /\ Calls(prefix \o ".start"))
           => (lastIssued' = <<>> /\ lastResult' = NoError)
    /\ Calls(prefix \o ".restart") =>
           /\ lastIssued' = <<ServiceCommand(service, "restart")>>
           /\ lastResult' = NoError => selfAfter.started
           /\ lastResult' # NoError => selfAfter = self

\* C6 (amended): start() issues the start command only when started is
\* false; when the first of two consecutive start() calls issued the command
\* and it succeeded, the second issues nothing; restart() always issues
\* exactly the restart command, and leaves started true when that command
\* succeeds and the flag as it was when it fails.
C6_StartOnceIfSucceeded ==
    [][/\ C6_Amended_Component("MariaDB", "mysql", mysql, mysql')
       /\ C6_Amended_Component("Apache2", "apache2", webserver, webserver')]_vars

\* C6 witness: the second of two consecutive start() calls was a no-op.
C6_Witness ==
    /\ lastOp.name = "MariaDB.start"
    /\ repeated = "after ok"
    /\ lastIssued = <<>>
    /\ mysql.started

\* This step is a call of a method of the component class named prefix.
CallsComponent(prefix) ==
    /\ calls' # calls
    /\ lastOp'.name \in {prefix \o m : m \in {".configure", ".add_site", ".install",
                                              ".add_user", ".start", ".restart",
                                              ".stop"}}

\* stop() issues the stop command exactly when started is true and changes
\* nothing when it is false; whichever method of the component is called, a
\* stop command is issued only from a state recorded as started, and started
\* is cleared only by a stop() that issued the command.
StopGuarded(prefix, service, self, selfAfter) ==
    /\ Calls(prefix \o ".stop") =>
           IF self.started
           THEN lastIssued' = <<ServiceCommand(service, "stop")>>
           ELSE lastIssued' = <<>> /\ selfAfter = self /\ lastResult' = NoError
    /\ (/\ CallsComponent(prefix)
        /\ \E i \in 1..Len(lastIssued') :
               lastIssued'[i] = ServiceCommand(service, "stop")) => self.started
    /\ (self.started /\ ~selfAfter.started) =>
           (Calls(prefix \o ".stop") /\ lastResult' = NoError)

\* C7 as stated: the above, and a start() that follows a stop() issues the
\* start command.
C7_Original_Component(prefix, service, self, selfAfter) ==
    /\ StopGuarded(prefix, service, self, selfAfter)
    /\ (lastOp.name = prefix \o ".stop" /\ Calls(prefix \o ".start"))
           => lastIssued' = <<ServiceCommand(service, "start")>>

\* C7 as stated, for the database and the web server.
C7_StopOnlyWhenStarted ==
    [][/\ C7_Original_Component("MariaDB", "mysql", mysql, mysql')
       /\ C7_Original_Component("Apache2", "apache2", webserver, webserver')]_vars

C7_Amended_Component(prefix, service, self, selfAfter) ==
    /\ StopGuarded(prefix, service, self, selfAfter)
    /\ (lastOp.name = prefix \o ".stop" /\ lastResult = NoError
        /\ Calls(prefix \o ".start"))
           => lastIssued' = <<ServiceCommand(service, "start")>>

\* C7 (amended): stop() issues the stop command only when started is true
\* and sets started to false when that command succeeds; when started is
\* false it issues nothing and changes nothing.  Stop commands are issued
\* only from a state recorded as started, and a start() after a stop() that
\* did not fail issues the start command again.
C7_StopThenStartIfSucceeded ==
    [][/\ C7_Amended_Component("MariaDB", "mysql", mysql, mysql')
       /\ C7_Amended_Component("Apache2", "apache2", webserver, webserver')]_vars

\* C7 witness: a stop() on a started component issued the stop command and
\* cleared the flag.
C7_Witness ==
    /\ lastOp.name = "Apache2.stop"
    /\ lastResult = NoError
    /\ lastIssued = <<ServiceCommand("apache2", "stop")>>
    /\ ~webserver.started

----------------------------------------------------------------------------
(* The shell harness: LocalShell.run step by step, next to the subprocess  *)
(* it starts.  The subprocess writes its bytes to the two pipes in the     *)
(* order of its script, blocking on a full pipe, and then exits, which     *)
(* closes both pipes.  A byte is named by its position in the script.      *)

\* The scripts of a subprocess: which stream each byte is written to.
Scripts == UNION {[1..n -> {"stdout", "stderr"}] : n \in 0..MaxOutput}

\* What the shell and the subprocess leave alone.
restVars ==
    <<mysql, webserver, php, underTest, calls, lastOp, repeated, lastResult,
      lastIssued, lastReturn, lastFailed, options, disk, phab, target, tmp, saving>>

InitShell ==
    /\ InitComponents
    /\ InitTarget
    /\ InitSave
    /\ underTest = "shell"
    /\ InitHistory
    /\ InitConfig
    /\ InitRun
    /\ phab = NoPhabricator

\* Mutant: a non-zero status raises whatever may_fail says.
LocalShell_run_outcome_strict(may_fail, status, stdout) ==
    IF status # 0
    THEN [kind |-> "raise", status |-> status, stdout |-> <<>>]
    ELSE [kind |-> "return", status |-> status, stdout |-> stdout]

\* LocalShell.run, after the loop: raise Error('Shell command returned %d.')
\* or return (status, stdout).
LocalShell_run_outcome(may_fail, status, stdout) ==
    IF ~may_fail /\ status # 0
    THEN [kind |-> "raise", status |-> status, stdout |-> <<>>]
    ELSE [kind |-> "return", status |-> status, stdout |-> stdout]

\* LocalShell.run up to the loop: the command is logged, the subprocess is
\* started and the list of captured chunks is empty.
LocalShell_run_enter(command, may_fail, script, status) ==
    /\ run' = [pc |-> "poll", command |-> command, may_fail |-> may_fail,
               stdout |-> <<>>, popens |-> run.popens + 1, result |-> NoResult]
    /\ process' = [alive |-> TRUE, todo |-> script, written |-> 0, to_stdout |-> <<>>,
                   status |-> status]
    /\ pipes' = [stdout |-> <<>>, stderr |-> <<>>]

\* shell.run(command, may_fail) on a LocalShell.
LocalShellRun ==
    /\ UNCHANGED restVars
    /\ run.pc = "idle"
    /\ \E command \in Commands, may_fail \in BOOLEAN, script \in Scripts,
          status \in 0..MaxStatus :
        /\ call' = [shell |-> "LocalShell", command |-> command, may_fail |-> may_fail]
        /\ LocalShell_run_enter(command, may_fail, script, status)

\* shell.run(command, may_fail) on a DockerContainerShell: the command is
\* wrapped and handed, with may_fail, to the LocalShell underneath.
DockerContainerShellRun ==
    /\ UNCHANGED restVars
    /\ run.pc = "idle"
    /\ \E command \in Commands, may_fail \in BOOLEAN, script \in Scripts,
          status \in 0..MaxStatus :
        /\ call' = [shell |-> "DockerContainerShell", command |-> command,
                    may_fail |-> may_fail]
        /\ LocalShell_run_enter(DockerExec(command), may_fail, script, status)

\* while process.poll() is None
Poll ==
    /\ UNCHANGED restVars
    /\ run.pc = "poll"
    /\ run' = [run EXCEPT !.pc = IF process.alive THEN "read_stdout" ELSE "exit"]
    /\ UNCHANGED <<call, process, pipes>>

\* chunk = process.stdout.read(1): a byte when one is there, '' at end of
\* file; it blocks while the pipe is empty and the subprocess holds it open.
ReadStdout ==
    /\ UNCHANGED restVars
    /\ run.pc = "read_stdout"
    /\ IF pipes.stdout # <<>>
       THEN /\ run' = [run EXCEPT !.stdout = Append(@, Head(pipes.stdout))]
            /\ pipes' = [pipes EXCEPT !.stdout = Tail(@)]
       ELSE /\ ~process.alive
            /\ run' = [run EXCEPT !.pc = "read_stderr"]
            /\ UNCHANGED pipes
    /\ UNCHANGED <<call, process>>

\* chunk = process.stderr.read(1): logged, not kept.
ReadStderr ==
    /\ UNCHANGED restVars
    /\ run.pc = "read_stderr"
    /\ IF pipes.stderr # <<>>
       THEN /\ pipes' = [pipes EXCEPT !.stderr = Tail(@)]
            /\ UNCHANGED run
       ELSE /\ ~process.alive
            /\ run' = [run EXCEPT !.pc = "poll"]
            /\ UNCHANGED pipes
    /\ UNCHANGED <<call, process>>

\* stdout = ''.join(stdout); status = process.returncode; raise or return.
RunExit ==
    /\ UNCHANGED restVars
    /\ run.pc = "exit"
    /\ run' = [run EXCEPT !.pc = "done",
                          !.result = LocalShell_run_outcome(run.may_fail,
                                                            process.status,
                                                            run.stdout)]
    /\ UNCHANGED <<call, process, pipes>>

\* The caller has the result; the shell is ready for the next call.
RunDone ==
    /\ UNCHANGED restVars
    /\ run.pc = "done"
    /\ call' = NoCall
    /\ run' = [pc |-> "idle", command |-> <<>>, may_fail |-> FALSE, stdout |-> <<>>,
               popens |-> 0, result |-> NoResult]
    /\ process' = NoProcess
    /\ pipes' = [stdout |-> <<>>, stderr |-> <<>>]

\* The subprocess writes its next byte, if the pipe has room for it.
ProcessWrite ==
    /\ UNCHANGED restVars
    /\ process.alive
    /\ process.todo # <<>>
    /\ LET stream == Head(process.todo)
           byte == process.written + 1
       IN  /\ Len(pipes[stream]) < PipeCapacity
           /\ pipes' = [pipes EXCEPT ![stream] = Append(@, byte)]
           /\ process' = [process EXCEPT
                              !.todo = Tail(@), !.written = byte,
                              !.to_stdout = IF stream = "stdout" THEN Append(@, byte)
                                            ELSE @]
    /\ UNCHANGED <<call, run>>

\* The subprocess exits, which closes its ends of the pipes.
ProcessExit ==
    /\ UNCHANGED restVars
    /\ process.alive
    /\ process.todo = <<>>
    /\ process' = [process EXCEPT !.alive = FALSE]
    /\ UNCHANGED <<call, run, pipes>>

NextShell ==
    \/ LocalShellRun
    \/ DockerContainerShellRun
    \/ Poll
    \/ ReadStdout
    \/ ReadStderr
    \/ RunExit
    \/ RunDone
    \/ ProcessWrite
    \/ ProcessExit

SpecShell == InitShell /\ [][NextShell]_vars

\* The steps of the thread that is in run(), and those of the subprocess.
Caller == Poll \/ ReadStdout \/ ReadStderr \/ RunExit \/ RunDone

Subprocess == ProcessWrite \/ ProcessExit

\* The same system where neither the thread nor the subprocess stops while
\* it has a step to take: both are scheduled by the operating system, and
\* neither waits for anything but the pipes.
SpecShellFair == SpecShell /\ WF_vars(Caller) /\ WF_vars(Subprocess)

\* The command a shell's run() has the operating system execute.
Executed(shell, command) ==
    IF shell = "DockerContainerShell" THEN DockerExec(command) ELSE command

----------------------------------------------------------------------------
(* The composition harness: components are built on either system, the     *)
(* store is loaded, and a Phabricator is constructed from whatever the     *)
(* three components and the store are at that moment.                      *)

\* The files the composition harness finds at 'config'.
ComposeFiles ==
    {Absent,
     File(Config_save_lines([id \in {"mysql.user.password"} |-> "s3cret"]))}

InitCompose ==
    /\ InitComponents
    /\ InitTarget
    /\ InitSave
    /\ underTest = "phabricator"
    /\ InitHistory
    /\ InitRun
    /\ phab = NoPhabricator
    /\ options = Config_init
    /\ disk \in ComposeFiles

NewMariaDB ==
    \E system \in Systems :
        /\ mysql' = MariaDB_init(system)
        /\ Called("MariaDB.__init__", <<system>>, Ctx({}))
        /\ UNCHANGED <<webserver, php, options, disk, phab, runVars, target, saveVars>>

NewApache2 ==
    \E system \in Systems :
        /\ webserver' = Apache2_init(system)
        /\ Called("Apache2.__init__", <<system>>, Ctx({}))
        /\ UNCHANGED <<mysql, php, options, disk, phab, runVars, target, saveVars>>

NewPHP ==
    \E system \in Systems :
        /\ php' = PHP_init(system)
        /\ Called("PHP.__init__", <<system>>, Ctx({}))
        /\ UNCHANGED <<mysql, webserver, options, disk, phab, runVars, target, saveVars>>

NewPhabricator ==
    \E password \in Passwords :
        LET r == Phabricator_init(mysql, webserver, php, options, Ctx({}), password)
        IN  /\ mysql' = r.mysql
            /\ webserver' = r.webserver
            /\ php' = r.php
            /\ options' = r.config
            /\ phab' = IF Raised(r.ctx) THEN phab ELSE r.self
            /\ Called("Phabricator.__init__", <<>>, r.ctx)
            /\ UNCHANGED <<disk, runVars, target, saveVars>>

NextCompose ==
    \/ NewMariaDB
    \/ NewApache2
    \/ NewPHP
    \/ NewPhabricator
    \/ ConfigLoad

SpecCompose == InitCompose /\ [][NextCompose]_vars

\* The three components are not all bound to the same system object.
DifferentSystems ==
    ~(mysql.system = webserver.system /\ webserver.system = php.system)

\* C3: constructing a Phabricator from components that are not all bound to
\* the same system object raises the not-identical error, issues no command
\* and changes no component (neither a configuration nor the site list), nor
\* the store, and no application object comes of it.
C3_DifferentTargetsRejected ==
    [][(Calls("Phabricator.__init__") /\ DifferentSystems) =>
          /\ lastResult' = ErrNotIdentical
          /\ lastIssued' = <<>>
          /\ mysql' = mysql
          /\ webserver' = webserver
          /\ php' = php
          /\ options' = options
          /\ phab' = phab]_vars

\* C3 witness: a construction was refused for components on different
\* systems, one of which an earlier construction had configured.
C3_Witness ==
    /\ lastOp.name = "Phabricator.__init__"
    /\ lastResult = ErrNotIdentical
    /\ DifferentSystems
    /\ mysql.config # <<>>
    /\ webserver.sites # <<>>
    /\ php.config = <<>>

----------------------------------------------------------------------------
\* The commands add_user(user, password, ...) hands to the shell.
DropCommand(user) == DockerExec(MysqlExecute(DropUser(user)))

CreateCommand(user, password) ==
    DockerExec(MysqlExecute(CreateUser(user, password, Privileges, Objects)))

----------------------------------------------------------------------------
(* The process harness: main() run again and again, each run a process of  *)
(* its own.  What one run leaves to the next is the file 'config' and the  *)
(* container; every command but the probes is free to fail, and a probe    *)
(* answers what is in the container.                                       *)

\* The files the first process may find at 'config': none, an empty
\* mapping, or a mapping in which the operator has chosen the password.
MainFiles ==
    {Absent,
     File(Config_save_lines(Config_init)),
     File(Config_save_lines([id \in {"mysql.user.password"} |-> "s3cret"]))}

InitMain ==
    /\ InitComponents
    /\ InitTarget
    /\ InitSave
    /\ underTest = "main"
    /\ InitHistory
    /\ InitRun
    /\ phab = NoPhabricator
    /\ options = Config_init
    /\ disk \in MainFiles

\* The commands of a run of main() in which no command fails.
AllIssued ==
    main(Files(File(Config_save_lines(Config_init)), Absent), "s3cret", {}).ctx.issued

IsProbe(command) == Len(command) = 7 /\ command[5] = "test"

\* The positions of the existence probes and of the drop-user command,
\* which are the same in every run.
ProbeSlots == {i \in 1..Len(AllIssued) : IsProbe(AllIssued[i])}

DropSlot ==
    CHOOSE i \in 1..Len(AllIssued) : AllIssued[i] = DropCommand("phabricator_mysql_user")

\* The environments of a run in a container that holds the paths in paths:
\* a probe exits non-zero iff its path is not there; of the other commands
\* none fails, or one does, or the drop-user command and a later one do.
Environments(paths) ==
    LET absent == {i \in ProbeSlots : AllIssued[i][7] \notin paths}
        others == (1..Len(AllIssued)) \ ProbeSlots
    IN  {absent \union e :
            e \in {{}} \union {{k} : k \in others}
                       \union {{DropSlot, k} : k \in {k \in others : k > DropSlot}}}

\* The component paths that the clone commands of a run have created.
Cloned(self, ctx) ==
    LET components == Phabricator_components(self)
    IN  {components[n][2] : n \in
            {n \in 1..Len(components) :
                \E i \in 1..Len(ctx.issued) :
                    /\ ctx.issued[i] = DockerExec(GitClone(self.app_path,
                                                           components[n][1]))
                    /\ i \notin ctx.fail}}

\* One process: python deploy.py, from its first statement to its last.
Main ==
    /\ lastOp.name = "none"
    /\ \E password \in Passwords :
       \E fail \in Environments(target) :
       \E r \in {main(Files(disk, tmp), password, fail)} :
           /\ mysql' = r.mysql
           /\ webserver' = r.webserver
           /\ php' = r.php
           /\ phab' = r.phab
           /\ options' = r.config
           /\ disk' = r.files["config"]
           /\ tmp' = r.files["config.tmp"]
           /\ target' = target \union Cloned(r.phab, r.ctx)
           /\ Called("main", <<password>>, r.ctx)
           /\ UNCHANGED <<runVars, saving>>

\* The process ends: its objects are gone; the files and the container stay.
Exit ==
    /\ lastOp.name = "main"
    /\ mysql' = MariaDB_init(1)
    /\ webserver' = Apache2_init(1)
    /\ php' = PHP_init(1)
    /\ phab' = NoPhabricator
    /\ options' = Config_init
    /\ calls' = 0
    /\ lastOp' = [name |-> "none", arg |-> <<>>]
    /\ repeated' = "no"
    /\ lastResult' = NoError
    /\ lastIssued' = <<>>
    /\ lastReturn' = None
    /\ lastFailed' = {}
    /\ UNCHANGED <<underTest, disk, tmp, target, runVars, saving>>

NextMain == Main \/ Exit

SpecMain == InitMain /\ [][NextMain]_vars

----------------------------------------------------------------------------
(* Properties of the recorded options and of the lifecycle flags under     *)
(* failing calls.                                                          *)

\* Every option of before is an option of after, with the same value.
Kept(before, after) ==
    \A i \in 1..Len(before) :
        /\ DictHas(after, before[i][1])
        /\ DictGet(after, before[i][1]) = before[i][2]

\* Every option of after is one of before or one the call has passed, with
\* the value passed, and no option is recorded twice.
AddedFrom(before, after, passed) ==
    /\ \A i \in 1..Len(after) :
           \/ DictHas(before, after[i][1])
           \/ \E j \in 1..Len(passed) : passed[j] = after[i]
    /\ Cardinality(DictKeys(after)) = Len(after)

\* C21: in every step, whatever is called and however it ends, an option a
\* component has recorded keeps its value and stays recorded; the options
\* change only in configure(), which, also when it raises, only adds options
\* that were absent, with the values it was passed.
C21_OptionsWriteOnce ==
    [][/\ Kept(mysql.config, mysql'.config)
       /\ Kept(php.config, php'.config)
       /\ mysql'.config # mysql.config => Calls("MariaDB.configure")
       /\ php'.config # php.config => Calls("PHP.configure")
       /\ Calls("MariaDB.configure") =>
              AddedFrom(mysql.config, mysql'.config, lastOp'.arg)
       /\ Calls("PHP.configure") =>
              AddedFrom(php.config, php'.config, lastOp'.arg)]_vars

\* A configure() of two options has raised the conflict on its second
\* option; its first option is recorded with the value passed, and the
\* option in conflict has the other value.
C21_Witness ==
    /\ lastOp.name = "PHP.configure"
    /\ lastResult = ErrPHPConflict
    /\ Len(lastOp.arg) = 2
    /\ Len(php.config) = 2
    /\ php.config[1][1] = lastOp.arg[2][1]
    /\ php.config[1][2] # lastOp.arg[2][2]
    /\ php.config[2] = lastOp.arg[1]

\* The command was issued in this step and exited with status 0.
Succeeded(command) ==
    \E i \in 1..Len(lastIssued') : lastIssued'[i] = command /\ i \notin lastFailed'

\* The flags of one component in one step.  started is set only in a step
\* whose start or restart command succeeded and cleared only in one whose
\* stop command succeeded; a start(), restart() or stop() that raises
\* leaves it as it was.  installed is set only by an install() none of
\* whose commands failed, and an install() that raises leaves it false.
\* After a start() that raised, the next start() issues the start command;
\* after an install() that raised, configure() (add_site() for the web
\* server) is not refused for the component being installed.
FlagsFollowSuccess(prefix, service, self, selfAfter, refused) ==
    /\ (~self.started /\ selfAfter.started) =>
           \/ Succeeded(ServiceCommand(service, "start"))
           \/ Succeeded(ServiceCommand(service, "restart"))
    /\ (self.started /\ ~selfAfter.started) =>
           Succeeded(ServiceCommand(service, "stop"))
    /\ (/\ calls' # calls
        /\ lastOp'.name \in {prefix \o ".start", prefix \o ".restart", prefix \o ".stop"}
        /\ lastResult' # NoError) =>
           /\ selfAfter = self
           /\ lastFailed' = {Len(lastIssued')}
    /\ (~self.installed /\ selfAfter.installed) =>
           /\ Calls(prefix \o ".install")
           /\ lastResult' = NoError
           /\ lastFailed' = {}
    /\ (~self.installed /\ Calls(prefix \o ".install") /\ lastResult' # NoError) =>
           /\ selfAfter = self
           /\ lastFailed' # {}
    /\ (/\ lastOp.name = prefix \o ".start" /\ lastResult # NoError
        /\ Calls(prefix \o ".start")) =>
           lastIssued' = <<ServiceCommand(service, "start")>>
    /\ (/\ lastOp.name = prefix \o ".install" /\ lastResult # NoError
        /\ ~self.installed
        /\ calls' # calls
        /\ lastOp'.name \in {prefix \o ".configure", prefix \o ".add_site"}) =>
           lastResult' # refused

\* C22: the flags of the database and of the web server change only after
\* the command they record has succeeded.
C22_FlagsAfterSuccess ==
    [][/\ FlagsFollowSuccess("MariaDB", "mysql", mysql, mysql', ErrMariaDBInstalled)
       /\ FlagsFollowSuccess("Apache2", "apache2", webserver, webserver',
                             ErrSiteInstalled)]_vars

\* A start() of the web server has issued the start command again and set
\* the flag, after a start() whose command failed.
C22_Witness ==
    /\ lastOp.name = "Apache2.start"
    /\ repeated = "after error"
    /\ lastResult = NoError
    /\ lastIssued = <<ServiceCommand("apache2", "start")>>
    /\ webserver.started

----------------------------------------------------------------------------
(* Properties of the poll loop of LocalShell.run.                          *)

\* C18: the stdout a call returns is the sequence of the bytes the
\* subprocess has written to its stdout, in the order it wrote them.
C18_StdoutComplete ==
    run.pc = "done" /\ run.result.kind = "return" =>
        run.result.stdout = process.to_stdout

\* C20: a call that has started its subprocess returns or raises.
C20_RunReturns == (run.pc = "poll") ~> (run.pc = "done")

----------------------------------------------------------------------------
(* Properties of a run of main().                                          *)

\* The set of the commands a context has issued.
Commands_of(ctx) == {ctx.issued[i] : i \in 1..Len(ctx.issued)}

\* The two fetch commands of component n of the application.
CloneCommand(self, n) ==
    DockerExec(GitClone(self.app_path, Phabricator_components(self)[n][1]))

PullCommand(self, n) == DockerExec(GitPull(Phabricator_components(self)[n][2]))

ProbeCommand(self, n) == TestExists(Phabricator_components(self)[n][2])

\* The positions in issued at which component n is fetched.
Fetches(self, issued, n) ==
    {i \in 1..Len(issued) : issued[i] \in {CloneCommand(self, n), PullCommand(self, n)}}

\* C13: in a run, a component is fetched by at most one command (by exactly
\* one when the run ends without an error), and the command before a fetch
\* is the probe of the path of that component; the command after a probe is
\* the clone of the component when the probe exits non-zero and the pull when
\* it exits zero.  A probe exits zero iff the path is in the container, and
\* a path comes into the container by a clone that succeeds: so a run in a
\* container without the path clones, and a run after such a clone pulls.
C13_CloneOrPullByProbe ==
    [][Calls("main") /\ phab'.constructed =>
         \A n \in 1..Len(Phabricator_components(phab')) :
             LET path == Phabricator_components(phab')[n][2]
                 issued == lastIssued'
                 fetches == Fetches(phab', issued, n)
             IN  /\ Cardinality(fetches) <= 1
                 /\ lastResult' = NoError => Cardinality(fetches) = 1
                 /\ \A i \in fetches : i > 1 /\ issued[i - 1] = ProbeCommand(phab', n)
                 /\ \A i \in 1..Len(issued) :
                        issued[i] = ProbeCommand(phab', n) =>
                            /\ i \in lastFailed' <=> path \notin target
                            /\ i < Len(issued)
                            /\ issued[i + 1] = IF i \in lastFailed'
                                               THEN CloneCommand(phab', n)
                                               ELSE PullCommand(phab', n)
                 /\ path \in target' <=>
                        \/ path \in target
                        \/ \E i \in fetches : /\ issued[i] = CloneCommand(phab', n)
                                               /\ i \notin lastFailed'
    ]_vars

\* A run that pulls the first component, which a run before it has cloned,
\* and clones the second.
C13_Witness ==
    /\ lastOp.name = "main"
    /\ phab.constructed
    /\ PullCommand(phab, 1) \in {lastIssued[i] : i \in 1..Len(lastIssued)}
    /\ CloneCommand(phab, 2) \in {lastIssued[i] : i \in 1..Len(lastIssued)}


\* The commands of the steps of install that have an order among them, step
\* by step: (1) the database package, (2) the database configuration file,
\* (3) the database start, (4) the drop of the user, (5) its creation and
\* grant, (6) the web server, (7) the scripting runtime, (8) the components,
\* (9) the settings of the application, (10) the storage upgrade, and the
\* restarts of (11) the database, (12) the daemon and (13) the web server.
\* The objects are the ones the constructor has configured.
StepCommands(self, m, w, p, config) ==
    LET refresh == Commands_of(Ubuntu_update_upgrade(Ctx({})))
        bin == phabricator_path(self) \o "/bin/"
    IN  << Commands_of(Ubuntu_install_packages(Ctx({}), <<"mariadb-server">>)),
           Commands_of(MariaDB_install_config_file(m, Ctx({}))),
           Commands_of(MariaDB_manage(Ctx({}), "start")),
           {DropCommand(config["mysql.user.name"])},
           {CreateCommand(config["mysql.user.name"], config["mysql.user.password"])},
           Commands_of(Apache2_install(w, Ctx({})).ctx) \ refresh,
           Commands_of(PHP_install(p, Ctx({})).ctx) \ refresh,
           UNION {{ProbeCommand(self, n), CloneCommand(self, n), PullCommand(self, n)} :
                     n \in 1..Len(Phabricator_components(self))},
           {DockerExec(<<bin \o "config", "set", e[1], e[2]>>) :
               e \in {<<"mysql.user", config["mysql.user.name"]>>,
                      <<"mysql.pass", config["mysql.user.password"]>>,
                      <<"phabricator.base-uri",
                        "'http://" \o config["app.domain-base"] \o "/'">>,
                      <<"security.alternate-file-domain",
                        "'http://" \o config["app.domain-files"] \o "/'">>,
                      <<"pygments.enabled", "true">>,
                      <<"metamta.mail-adapter",
                        "PhabricatorMailImplementationPHPMailerAdapter">>,
                      <<"repository.default-local-path", "/opt/repos">>,
                      <<"storage.local-disk.path", "/opt/files">>}},
           {DockerExec(<<bin \o "storage", "upgrade", "--force", "--user", "root">>)},
           Commands_of(MariaDB_manage(Ctx({}), "restart")),
           {DockerExec(<<bin \o "phd", "restart">>)},
           Commands_of(Apache2_manage(Ctx({}), "restart")) >>

\* The step a command belongs to, and 0 for a command of no step (the
\* refreshes of the package index, the tools, the directories, the listing
\* of the processes).
StepOf(command, steps) ==
    IF \E k \in 1..Len(steps) : command \in steps[k]
    THEN CHOOSE k \in 1..Len(steps) : command \in steps[k]
    ELSE 0

RECURSIVE StepsOf(_, _)
\* The steps of the commands of issued, in the order of issue.
StepsOf(issued, steps) ==
    IF issued = <<>> THEN <<>>
    ELSE <<StepOf(Head(issued), steps)>> \o StepsOf(Tail(issued), steps)

\* The last command of install.
ListProcesses == DockerExec(<<"ps", "aux">>)

\* The commands of a run that install has issued: the commands up to the
\* listing of the processes (start() comes after it).
InstallPart(issued) ==
    IF \E i \in 1..Len(issued) : issued[i] = ListProcesses
    THEN SubSeq(issued, 1, CHOOSE i \in 1..Len(issued) : issued[i] = ListProcesses)
    ELSE issued

\* No command of a later step comes before a command of an earlier one.
InStepOrder(of) ==
    \A i, j \in 1..Len(of) : i < j /\ of[i] # 0 /\ of[j] # 0 => of[i] <= of[j]

\* The steps of one command have at most one command in the sequence.
SingleCommands(of) ==
    \A i, j \in 1..Len(of) :
        i < j /\ of[i] = of[j] => of[i] \notin {1, 2, 3, 4, 5, 10, 11, 12, 13}

\* C14: the commands of install are issued in the order of the steps: the
\* database package, its configuration file, the database start, the drop
\* of the user, its creation, the web server, the scripting runtime, the
\* components, the settings, the storage upgrade, and the restarts of the
\* database, the daemon and the web server; an install that returns has
\* issued the commands of every step.  A command is in the sequence only
\* when the command before it has exited.
C14_InstallOrder ==
    [][Calls("main") /\ phab'.constructed =>
         \A steps \in {StepCommands(phab', mysql', webserver', php', options')} :
         \A of \in {StepsOf(InstallPart(lastIssued'), steps)} :
             /\ InStepOrder(of)
             /\ SingleCommands(of)
             /\ lastResult' = NoError =>
                    /\ \A k \in 1..13 : \E i \in 1..Len(of) : of[i] = k
                    /\ of[Len(of)] = 0
                    /\ of[Len(of) - 1] = 13
    ]_vars

\* A run whose install has issued every command, the restarts included,
\* after a drop of the user that failed.
C14_Witness ==
    /\ lastOp.name = "main"
    /\ lastResult = NoError
    /\ lastFailed \ ProbeSlots = {DropSlot}
    /\ ListProcesses \in {lastIssued[i] : i \in 1..Len(lastIssued)}

\* The commands that are run with may_fail: the probes and the drop of the
\* user.
Tolerated(command) ==
    IsProbe(command) \/ command \in {DropCommand(user) : user \in Users}

\* C15: in a run, a command that exits non-zero and is not run with
\* may_fail is the last command of the run, and the run ends with the error
\* of the shell: no step after it is run, nothing is undone and the command
\* is not issued again.  A run ends with that error only in this way, and a
\* command run with may_fail that exits non-zero is followed by the next
\* command.
C15_FailureHalts ==
    [][Calls("main") =>
         /\ \A k \in lastFailed' :
                IF Tolerated(lastIssued'[k])
                THEN k < Len(lastIssued')
                ELSE k = Len(lastIssued') /\ lastResult' = ErrShell
         /\ lastResult' = ErrShell =>
                /\ Len(lastIssued') \in lastFailed'
                /\ ~Tolerated(lastIssued'[Len(lastIssued')])
         /\ lastResult' = NoError => Len(lastIssued') = Len(AllIssued)
    ]_vars

\* A run that went on after the drop of the user failed and halted at a
\* later command, before the restarts.
C15_Witness ==
    /\ lastOp.name = "main"
    /\ lastResult = ErrShell
    /\ DropSlot \in lastFailed
    /\ Len(lastIssued) > DropSlot + 10
    /\ Len(lastIssued) < Len(AllIssued) - 5

\* The id of the credential, and the mapping a fresh store loads from a
\* file that is there.
PasswordId == "mysql.user.password"

Loaded(file) == Config_load(Config_init, Ctx({}), file).self

\* C16: a run that finds the file of the store saves, however its install
\* ends, the store it has used, with the credential in it; the credential
\* it uses is the one in the file it found, and the generated one only when
\* the file had none; the commands that carry a credential carry that one.
\* So every run after a run that saved uses the value that run saved.
C16_CredentialReused ==
    [][Calls("main") /\ disk.exists =>
         \A stored \in {Loaded(disk)} :
             /\ disk'.exists
             /\ Loaded(disk') = options'
             /\ PasswordId \in DOMAIN options'
             /\ options'[PasswordId] = IF PasswordId \in DOMAIN stored
                                       THEN stored[PasswordId]
                                       ELSE lastOp'.arg[1]
             /\ \A i \in 1..Len(lastIssued') :
                    lastIssued'[i] \in {CreateCommand(user, password) :
                                           user \in Users, password \in Passwords}
                        => lastIssued'[i] = CreateCommand(options'["mysql.user.name"],
                                                         options'[PasswordId])
    ]_vars

\* A run whose install failed and which used and saved the credential an
\* earlier run had generated, not the one generated in this run.
C16_Witness ==
    /\ lastOp = [name |-> "main", arg |-> <<"s3cret">>]
    /\ lastResult = ErrShell
    /\ PasswordId \in DOMAIN options
    /\ options[PasswordId] = "Xy_9.Ab0"
    /\ disk = File(Config_save_lines(options))

----------------------------------------------------------------------------
(* Properties of MariaDB.add_user and of the lifecycle flags, on the       *)
(* component harness.                                                      *)

\* C17: add_user issues the drop-user command and then the
\* create-user-and-grant command; a non-zero exit of the drop is swallowed
\* and the create is issued all the same, a non-zero exit of the create
\* raises.  Before either of them the database has been started: when the
\* started flag is false the start command is issued first, once, and the
\* SQL commands follow only when it succeeded, the flag then being true.
C17_AddUserDropsThenCreates ==
    [][Calls("MariaDB.add_user") =>
          LET start == ServiceCommand("mysql", "start")
              drop == DropCommand(lastOp'.arg[1])
              create == CreateCommand(lastOp'.arg[1], lastOp'.arg[2])
              n == Len(lastIssued')
          IN  /\ IF mysql.started
                 THEN lastIssued' = <<drop, create>>
                 ELSE \/ /\ lastIssued' = <<start>>
                         /\ lastFailed' = {1}
                         /\ ~mysql'.started
                      \/ /\ lastIssued' = <<start, drop, create>>
                         /\ 1 \notin lastFailed'
              /\ n > 1 => mysql'.started
              /\ lastResult' = IF n \in lastFailed' THEN ErrShell ELSE NoError]_vars

\* C17 witness: on a database that was not started, add_user issued the
\* start command, then the drop, which failed, then the create, and
\* returned normally.
C17_Witness ==
    /\ lastOp.name = "MariaDB.add_user"
    /\ Len(lastIssued) = 3
    /\ lastFailed = {2}
    /\ lastIssued[2] = DropCommand(lastOp.arg[1])
    /\ lastIssued[3] = CreateCommand(lastOp.arg[1], lastOp.arg[2])
    /\ lastResult = NoError
    /\ mysql.started

\* C19: a component's started flag is true only when its installed flag
\* is, that is, only after its install() has completed, and the installed
\* flag, once true, stays true.
C19_StartedOnlyAfterInstall ==
    [][/\ mysql'.started => mysql'.installed
       /\ webserver'.started => webserver'.installed
       /\ mysql.installed => mysql'.installed
       /\ webserver.installed => webserver'.installed
       /\ php.installed => php'.installed]_vars

====
